---- MODULE Spec2Model ----
(***************************************************************************)
(* MealMind: the scheduled meal-plan workflow (MealPlanWorkflow, a graph   *)
(* of agent nodes over one mutable state dict), the two-batch plan merge   *)
(* inside agent_generate_meal_plan, and the planning_schedule / meal_plans *)
(* tables they read and write.                                             *)
(*                                                                         *)
(* Conventions.                                                            *)
(*   - An optional value (a Python None or a missing dict key) is the      *)
(*     empty sequence; a present value x is <<x>>.                         *)
(*   - Calendar dates are day numbers (days since 1970-01-01).             *)
(*   - Values the code rounds to one decimal (round(x, 1)) are kept in     *)
(*     tenths: 12 stands for 1.2.                                          *)
(*   - The state dict is one object: what a node or route_next_step        *)
(*     assigns is what the next node reads, and the graph runs node after  *)
(*     node until END.                                                     *)
(*   - The database connection stays usable during a run: a statement or   *)
(*     a commit may raise inside a try block, cursor() and rollback() do   *)
(*     not.                                                                *)
(***************************************************************************)
EXTENDS Integers, Sequences, FiniteSets, TLC

VARIABLES
    pc,                 \* the graph node about to run (or "END")
    current_date,       \* state['current_date'], the target date of the run
    users_to_process,   \* state['users_to_process']
    current_user_index, \* state['current_user_index'] (0-based)
    current_user,       \* state['current_user'] (optional)
    user_data,          \* state['user_data'] (optional)
    generated_plan,     \* state['generated_plan'] (optional)
    success_count,      \* state['success_count']
    failure_count,      \* state['failure_count']
    errors,             \* state['errors']: the entries logged, as (agent, user_id)
    retry_count,        \* state['retry_count']
    data_1,             \* batch 1 as extracted from the agent's reply (optional)
    data_2,             \* batch 2 as extracted from the agent's reply (optional)
    planning_schedule,  \* table planning_schedule: schedule_id -> row
    meal_plans,         \* table meal_plans: user_id -> number of committed plans
    persist_calls,      \* calls of agent_persist_plan made so far for the user at current_user_index
    raw_response,       \* extract_json_from_response: the text passed in, a sequence of characters
    extracted,          \* extract_json_from_response: how the call ended (optional)
    meal_plan_json,     \* MealPlanState['meal_plan_json'] of the interactive graph (optional)
    error,              \* MealPlanState['error'] of the interactive graph (optional)
    inventory_df,       \* MealPlanState['inventory_df']: the number of its rows
    start_date_kwarg,   \* the start_date keyword a caller passes to fix_day_names_in_plan (optional)
    raised,             \* an exception left the operation and reached its caller
    daily_meals,        \* table daily_meals: daily_meal_id -> row (user, date, total_nutrition)
    meal_details,       \* table meal_details: detail_id -> row (day, meal type, name, nutrition)
    llm,                \* MealAdjustmentAgent.llm is set
    request,            \* the user_id, date and meal_type process_request is called with (optional)
    adjustment_result,  \* what process_request returned, state['adjustment_result'] (optional)
    entry,              \* the chat entry point called: "run_chat" or "run_chat_stream"
    user_input,         \* the user's message, as the set of phrases it is made of
    chat_model,         \* MealRouterAgent.chat_model is set
    chat_state,         \* the ChatRouterState the graph passes from node to node
    stream,             \* run_chat_stream's locals and the strings it has yielded
    reply,              \* what run_chat returned (optional)
    other_run           \* the state dict of a second MealPlanWorkflow.run on the same tables

vars == <<pc, current_date, users_to_process, current_user_index, current_user,
          user_data, generated_plan, success_count, failure_count, errors,
          retry_count, data_1, data_2, planning_schedule, meal_plans, persist_calls,
          raw_response, extracted, meal_plan_json, error, inventory_df,
          start_date_kwarg, raised, daily_meals, meal_details, llm, request, adjustment_result,
          entry, user_input, chat_model, chat_state, stream, reply, other_run>>

----------------------------------------------------------------------------
(* Bounds of the model *)

MaxUsers == 2
MaxSchedules == 3
InitSchedules == 2
MaxBatchDays == 2
MaxItems == 2
MaxLen == 5

(* Program constants *)

max_retries == 3
MockDays == 7
AdvanceDays == 7

(* datetime.now().date() during the run: 2025-01-10, a Friday *)
Today == 20098

None == <<>>
Some(x) == <<x>>
Val(o) == o[1]

Users == 1..MaxUsers
ScheduleIds == 1..MaxSchedules

Min(a, b) == IF a <= b THEN a ELSE b

----------------------------------------------------------------------------
(* Dates: strftime('%A') of a day number; 1970-01-01 was a Thursday. *)

DayNames == <<"Thursday", "Friday", "Saturday", "Sunday", "Monday", "Tuesday", "Wednesday">>

WeekdayName(d) == DayNames[(d % 7) + 1]

----------------------------------------------------------------------------
(* Python numerics *)

\* int(total / n): truncation of the quotient
IntDiv(total, n) == total \div n

\* round(total / n, 1) in tenths: nearest tenth, an exact tie goes to the even digit
Round1(total, n) ==
    LET q == (10 * total) \div n
        r == (10 * total) % n
    IN  IF 2 * r < n THEN q
        ELSE IF 2 * r > n THEN q + 1
        ELSE IF q % 2 = 0 THEN q ELSE q + 1

RECURSIVE SumOver(_, _)
\* sum(f(d) for d in days)
SumOver(days, field) ==
    IF days = <<>> THEN 0
    ELSE Head(days).total_nutrition[field] + SumOver(Tail(days), field)

----------------------------------------------------------------------------
(* JSON scalars as the agent may write them, and Python's conversions of them *)

Num(n) == [type |-> "number", num |-> n]

\* a string holding a whole number, such as "3"
NumStr(n) == [type |-> "numeric_string", num |-> n]

\* a string holding no number, such as "2 lbs"
Text == [type |-> "text", num |-> 0]

Null == [type |-> "null", num |-> 0]

\* float(v): the number, or None where Python raises (TypeError, ValueError)
ToFloat(v) == IF v.type \in {"number", "numeric_string"} THEN Some(v.num) ELSE None

\* int(v): the number (whole numbers only here), or None where Python raises
ToInt(v) == IF v.type \in {"number", "numeric_string"} THEN Some(v.num) ELSE None

\* d.get(key, 0)
GetOr0(o) == IF o = None THEN Num(0) ELSE Val(o)

\* str.lower() on the item names used
Lower(name) ==
    CASE name = "Rice"  -> "rice"
      [] name = "RICE"  -> "rice"
      [] name = "Rice " -> "rice "
      [] name = "Beans" -> "beans"
      [] OTHER -> name

----------------------------------------------------------------------------
(* Plan envelopes (parsed JSON objects) *)

\* data.get('meal_plan', {}).get('days', [])
DaysOf(p) ==
    IF p.meal_plan = None THEN <<>>
    ELSE IF Val(p.meal_plan).days = None THEN <<>>
    ELSE Val(Val(p.meal_plan).days)

\* data.get('recommendations', {}).get('shopping_list_summary', {})
ShoppingOf(p) ==
    IF p.recommendations = None THEN None
    ELSE Val(p.recommendations).shopping_list_summary

\* the keys a shopping_list_summary may hold item lists under
CategoryKeys ==
    {"proteins", "produce", "pantry", "grains", "vegetables", "fruits", "dairy_alternatives",
     "pantry_items"}

\* a shopping_list_summary: item lists by category (None: key absent) and the totals
ShoppingList(categories, cost, from_inventory, to_purchase) ==
    [categories |-> [c \in CategoryKeys |->
                        IF c \in DOMAIN categories THEN Some(categories[c]) ELSE None],
     total_estimated_cost |-> cost,
     total_items_from_inventory |-> from_inventory,
     total_items_to_purchase |-> to_purchase]

\* {}
EmptyDict == ShoppingList(<<>>, None, None, None)

\* bool(d) of an optional dict: a missing or empty one is falsy
Truthy(sl) == sl # None /\ Val(sl) # EmptyDict

Item(name, quantity_to_purchase, total_quantity_needed) ==
    [item |-> name, quantity_to_purchase |-> quantity_to_purchase,
     total_quantity_needed |-> total_quantity_needed]

HasDays(p) == p.meal_plan # None /\ Val(p.meal_plan).days # None

HasWeekSummary(p) == p.meal_plan # None /\ Val(p.meal_plan).week_summary # None

WithDays(p, ds) ==
    [p EXCEPT !.meal_plan = Some([Val(p.meal_plan) EXCEPT !.days = Some(ds)])]

WithWeekSummary(p, ws) ==
    [p EXCEPT !.meal_plan = Some([Val(p.meal_plan) EXCEPT !.week_summary = Some(ws)])]

WithShopping(p, sl) ==
    [p EXCEPT !.recommendations = Some([Val(p.recommendations) EXCEPT !.shopping_list_summary = Some(sl)])]

validate_meal_plan_structure(p) ==
    /\ p.user_summary
    /\ p.meal_plan # None
    /\ p.recommendations # None
    /\ p.metadata # None
    /\ Val(p.meal_plan).days # None
    /\ Len(Val(Val(p.meal_plan).days)) >= 1

----------------------------------------------------------------------------
(* fix_day_names_with_start_date *)

\* the names counted from the day after start_date
fix_day_names_from_next_day(p, start_date) ==
    IF ~HasDays(p) THEN p
    ELSE LET days == DaysOf(p)
         IN  WithDays(p, [i \in 1..Len(days) |->
                 [days[i] EXCEPT !.day_name = WeekdayName(start_date + i),
                                 !.day = i]])

fix_day_names_with_start_date(p, start_date) ==
    IF ~HasDays(p) THEN p
    ELSE LET days == DaysOf(p)
         IN  WithDays(p, [i \in 1..Len(days) |->
                 [days[i] EXCEPT !.day_name = WeekdayName(start_date + (i - 1)),
                                 !.day = i]])

\* MealPlanAgentWithExtraction.fix_day_names_in_plan(meal_plan_data): the names are
\* counted from datetime.now().date(); no other key of a day is written
fix_day_names_in_plan(meal_plan_data) ==
    IF ~HasDays(meal_plan_data) THEN meal_plan_data
    ELSE LET days == DaysOf(meal_plan_data)
         IN  WithDays(meal_plan_data, [i \in 1..Len(days) |->
                 [days[i] EXCEPT !.day_name = WeekdayName(Today + (i - 1)),
                                 !.day = i]])

----------------------------------------------------------------------------
(* The merge section of agent_generate_meal_plan *)

\* merged_plan['meal_plan']['days'].extend(days_2)
ExtendDays(p1, p2) ==
    IF HasDays(p1) THEN WithDays(p1, DaysOf(p1) \o DaysOf(p2)) ELSE p1

\* for category in [...]: the categories whose items are merged
MergeCategories ==
    <<"proteins", "produce", "pantry", "grains", "vegetables", "fruits", "dairy_alternatives">>

\* the last item of the first len_1 entries with that lowered name, else the first item
\* appended since with it, else 0: existing_items[name]
ExistingItem(items, len_1, name) ==
    LET own   == { i \in 1..len_1 :
                     items[i].item # None /\ Lower(Val(items[i].item)) = name }
        added == { i \in (len_1 + 1)..Len(items) : Lower(Val(items[i].item)) = name }
    IN  IF own # {} THEN CHOOSE i \in own : \A j \in own : j <= i
        ELSE IF added # {} THEN CHOOSE i \in added : \A j \in added : i <= j
        ELSE 0

\* a quantity that does not parse replaced by the new item's
SumQuantities_TakeNew(existing, new_item) ==
    LET q1 == ToFloat(GetOr0(existing.quantity_to_purchase))
        q2 == ToFloat(GetOr0(new_item.quantity_to_purchase))
    IN  IF q1 = None \/ q2 = None
        THEN [existing EXCEPT !.quantity_to_purchase = new_item.quantity_to_purchase]
        ELSE [existing EXCEPT !.quantity_to_purchase = Some(Num(Val(q1) + Val(q2)))]

\* the inner try: both quantities are summed when they parse; what raises leaves the
\* fields not yet assigned as they were
SumQuantities(existing, new_item) ==
    LET q1 == ToFloat(GetOr0(existing.quantity_to_purchase))
        q2 == ToFloat(GetOr0(new_item.quantity_to_purchase))
        t1 == ToFloat(GetOr0(existing.total_quantity_needed))
        t2 == ToFloat(GetOr0(new_item.total_quantity_needed))
    IN  IF q1 = None \/ q2 = None THEN existing
        ELSE LET summed == [existing EXCEPT
                               !.quantity_to_purchase = Some(Num(Val(q1) + Val(q2)))]
             IN  IF t1 = None \/ t2 = None THEN summed
                 ELSE [summed EXCEPT !.total_quantity_needed = Some(Num(Val(t1) + Val(t2)))]

RECURSIVE MergeItems(_, _, _)
\* for new_item in sl_2[category]: sum into the existing item or append
MergeItems(items, len_1, new_items) ==
    IF new_items = <<>> THEN items
    ELSE LET new_item == Head(new_items)
         IN  IF new_item.item = None
             THEN MergeItems(items, len_1, Tail(new_items))
             ELSE LET k == ExistingItem(items, len_1, Lower(Val(new_item.item)))
                  IN  IF k # 0
                      THEN MergeItems([items EXCEPT ![k] = SumQuantities(items[k], new_item)],
                                      len_1, Tail(new_items))
                      ELSE MergeItems(Append(items, new_item), len_1, Tail(new_items))

\* the category loop: a category of sl_2 outside the list is not looked at
MergeCategoryLists(sl_1, sl_2) ==
    [sl_1 EXCEPT !.categories =
        [c \in DOMAIN sl_1.categories |->
            IF (\E i \in DOMAIN MergeCategories : MergeCategories[i] = c)
               /\ sl_2.categories[c] # None
            THEN LET items_1 == IF sl_1.categories[c] = None THEN <<>>
                                ELSE Val(sl_1.categories[c])
                 IN  Some(MergeItems(items_1, Len(items_1), Val(sl_2.categories[c])))
            ELSE sl_1.categories[c]]]

\* "Sum totals": three assignments in a row, the first conversion that raises ends them
SumTotals(sl_1, sl_2) ==
    LET c1 == ToFloat(GetOr0(sl_1.total_estimated_cost))
        c2 == ToFloat(GetOr0(sl_2.total_estimated_cost))
        i1 == ToInt(GetOr0(sl_1.total_items_from_inventory))
        i2 == ToInt(GetOr0(sl_2.total_items_from_inventory))
        p1 == ToInt(GetOr0(sl_1.total_items_to_purchase))
        p2 == ToInt(GetOr0(sl_2.total_items_to_purchase))
    IN  IF c1 = None \/ c2 = None THEN sl_1
        ELSE LET with_cost ==
                     [sl_1 EXCEPT !.total_estimated_cost = Some(Num(Val(c1) + Val(c2)))]
             IN  IF i1 = None \/ i2 = None THEN with_cost
                 ELSE LET with_inventory ==
                              [with_cost EXCEPT !.total_items_from_inventory =
                                                    Some(Num(Val(i1) + Val(i2)))]
                      IN  IF p1 = None \/ p2 = None THEN with_inventory
                          ELSE [with_inventory EXCEPT !.total_items_to_purchase =
                                                          Some(Num(Val(p1) + Val(p2)))]

\* the shopping lists are merged when both batches carry a non-empty one
MergeShoppingTotals(p1, p2) ==
    LET sl_1 == ShoppingOf(p1)
        sl_2 == ShoppingOf(p2)
    IN  IF Truthy(sl_1) /\ Truthy(sl_2)
        THEN WithShopping(p1, SumTotals(MergeCategoryLists(Val(sl_1), Val(sl_2)), Val(sl_2)))
        ELSE p1

\* int(...get('total_items_from_inventory', 0)) of the merged list: None when it raises
ItemsUsedCount(p) ==
    IF ShoppingOf(p) = None THEN Some(0)
    ELSE ToInt(GetOr0(Val(ShoppingOf(p)).total_items_from_inventory))

\* round(min(items / inventory * 100, 100), 1), or 0 for an empty inventory
UtilizationRate(items_used_count, total_inventory_count) ==
    IF total_inventory_count > 0
    THEN Min(Round1(100 * items_used_count, total_inventory_count), 1000)
    ELSE 0

\* a week's seven days taken for granted
NumDays_Week(all_days) == 7

\* the number the totals are divided by
NumDays(all_days) == Len(all_days)

\* the week summary is rewritten in place; a plan without one gets none. The averages
\* are assigned first: when int() of the item count raises, the rate stays as it was
RecalculateWeekSummary(p, total_inventory_count) ==
    LET all_days == DaysOf(p)
        num_days == NumDays(all_days)
        items_used_count == ItemsUsedCount(p)
    IN  IF all_days = <<>> \/ ~HasWeekSummary(p) THEN p
        ELSE LET week_summary == Val(Val(p.meal_plan).week_summary)
                 averaged ==
                     [week_summary EXCEPT
                         !.average_daily_calories = IntDiv(SumOver(all_days, "calories"), num_days),
                         !.average_daily_protein  = Round1(SumOver(all_days, "protein_g"), num_days),
                         !.average_daily_carbs    = Round1(SumOver(all_days, "carbohydrates_g"), num_days),
                         !.average_daily_fat      = Round1(SumOver(all_days, "fat_g"), num_days),
                         !.average_daily_fiber    = Round1(SumOver(all_days, "fiber_g"), num_days)]
             IN  IF items_used_count = None THEN WithWeekSummary(p, averaged)
                 ELSE WithWeekSummary(p,
                         [averaged EXCEPT !.inventory_utilization_rate =
                             UtilizationRate(Val(items_used_count), total_inventory_count)])

\* merged_plan before it is validated: batch 1 with the days appended, the shopping
\* lists merged and the week summary recalculated
MergeResults(d1, d2, total_inventory_count) ==
    RecalculateWeekSummary(MergeShoppingTotals(ExtendDays(d1, d2), d2), total_inventory_count)

\* merged_plan after the "Merge Results" block: None or the accepted plan
MergeBatches(d1, d2, total_inventory_count, start_date_obj) ==
    IF d1 # None /\ d2 # None
    THEN LET extended == ExtendDays(Val(d1), Val(d2))
             shopped  == MergeShoppingTotals(extended, Val(d2))
             merged   == RecalculateWeekSummary(shopped, total_inventory_count)
         IN  IF validate_meal_plan_structure(merged)
             THEN Some(fix_day_names_with_start_date(merged, start_date_obj))
             ELSE None
    ELSE None

----------------------------------------------------------------------------
(* generate_mock_meal_plan: seven days named from today, the profile's targets *)

ProfileTargets ==
    [calories |-> 2000, protein_g |-> 100, carbohydrates_g |-> 250, fat_g |-> 70, fiber_g |-> 30]

generate_mock_meal_plan ==
    [user_summary |-> TRUE,
     meal_plan |-> Some(
        [days |-> Some([i \in 1..MockDays |->
                     [day |-> i, day_name |-> WeekdayName(Today + (i - 1)), date |-> None,
                      total_nutrition |-> ProfileTargets]]),
         week_summary |-> Some(
            [average_daily_calories |-> ProfileTargets.calories,
             average_daily_protein  |-> 10 * ProfileTargets.protein_g,
             average_daily_carbs    |-> 10 * ProfileTargets.carbohydrates_g,
             average_daily_fat      |-> 10 * ProfileTargets.fat_g,
             average_daily_fiber    |-> 10 * ProfileTargets.fiber_g,
             inventory_utilization_rate |-> 650])]),
     recommendations |-> Some(
        [shopping_list_summary |-> Some(
            ShoppingList(
                [c \in {"proteins", "grains", "vegetables", "fruits", "dairy_alternatives",
                         "pantry_items"} |->
                    IF c = "proteins" THEN <<Item(Some("Salmon"), Some(Num(540)), Some(Num(540)))>>
                    ELSE IF c = "grains" THEN <<Item(Some("Quinoa"), Some(Num(200)), Some(Num(300)))>>
                    ELSE <<>>],
                None, Some(Num(15)), Some(Num(25))))]),
     metadata |-> Some([agent_version |-> "MOCK_v1"])]

----------------------------------------------------------------------------
(* extract_json_from_response over texts of a small alphabet: brackets, braces, the   *)
(* comma, the digit 1, the blank and a letter. A parsed value is kept as its tokens.   *)

Chars == {"[", "]", "{", "}", ",", "1", " ", "x"}

RECURSIVE Strip(_)
\* str.strip()
Strip(text) ==
    IF text = <<>> THEN text
    ELSE IF Head(text) = " " THEN Strip(Tail(text))
    ELSE IF text[Len(text)] = " " THEN Strip(SubSeq(text, 1, Len(text) - 1))
    ELSE text

RECURSIVE Tokenize(_, _)
\* the JSON scanner: blanks separate tokens, a run of digits is one number "N"
Tokenize(text, in_number) ==
    IF text = <<>> THEN <<>>
    ELSE LET c == Head(text)
         IN  IF c = " " THEN Tokenize(Tail(text), FALSE)
             ELSE IF c = "1"
             THEN (IF in_number THEN <<>> ELSE <<"N">>) \o Tokenize(Tail(text), TRUE)
             ELSE <<c>> \o Tokenize(Tail(text), FALSE)

RECURSIVE IsJsonValue(_), IsJsonElements(_)
\* the JSON grammar over the tokens: a number, {}, or a list of values
IsJsonValue(tokens) ==
    \/ tokens = <<"N">>
    \/ tokens = <<"{", "}">>
    \/ /\ Len(tokens) >= 2
       /\ tokens[1] = "["
       /\ tokens[Len(tokens)] = "]"
       /\ \/ Len(tokens) = 2
          \/ IsJsonElements(SubSeq(tokens, 2, Len(tokens) - 1))

\* value ("," value)*
IsJsonElements(tokens) ==
    \/ IsJsonValue(tokens)
    \/ \E k \in 2..(Len(tokens) - 1) :
          /\ tokens[k] = ","
          /\ IsJsonValue(SubSeq(tokens, 1, k - 1))
          /\ IsJsonElements(SubSeq(tokens, k + 1, Len(tokens)))

\* json.loads(text): the value, or raised
json_loads(text) ==
    LET tokens == Tokenize(text, FALSE)
    IN  IF IsJsonValue(tokens) THEN [raised |-> FALSE, value |-> Some(tokens)]
        ELSE [raised |-> TRUE, value |-> None]

\* re.search(open + '.*' + close, text, re.DOTALL): from the first opening character
\* that a closing one follows, up to the last closing one
GreedySpan(text, open, close) ==
    LET starts == { i \in DOMAIN text :
                      text[i] = open /\ \E j \in DOMAIN text : j > i /\ text[j] = close }
    IN  IF starts = {} THEN None
        ELSE LET i == CHOOSE x \in starts : \A y \in starts : x <= y
                 j == CHOOSE x \in DOMAIN text :
                          text[x] = close /\ \A y \in DOMAIN text : text[y] = close => y <= x
             IN  Some(SubSeq(text, i, j))

\* json.loads of a span outside any try: what it raises reaches the outer handler,
\* which returns None
LoadSpan_Unguarded(match, otherwise) ==
    IF match = None THEN otherwise
    ELSE IF json_loads(Val(match)).raised THEN [raised |-> FALSE, value |-> None]
    ELSE json_loads(Val(match))

\* if match: try: return json.loads(match.group()) except: pass
LoadSpan(match, otherwise) ==
    IF match = None THEN otherwise
    ELSE IF json_loads(Val(match)).raised THEN otherwise
    ELSE json_loads(Val(match))

extract_json_from_response(text) ==
    LET cleaned == Strip(text)
        whole   == json_loads(cleaned)
    IN  IF ~whole.raised THEN whole
        ELSE LoadSpan(GreedySpan(cleaned, "[", "]"),
                 LoadSpan(GreedySpan(cleaned, "{", "}"),
                     [raised |-> FALSE, value |-> None]))

\* the response texts
Texts == UNION { [1..n -> Chars] : n \in 0..MaxLen }

----------------------------------------------------------------------------
(* Agent replies the model draws from *)

Nutrition(c, p, cb, f, fb) ==
    [calories |-> c, protein_g |-> p, carbohydrates_g |-> cb, fat_g |-> f, fiber_g |-> fb]

\* day entries as an agent may return them: any number, any name, no "date" key
AgentDays ==
    { [day |-> 1, day_name |-> "Monday",  date |-> None,
       total_nutrition |-> Nutrition(2000, 101, 250, 70, 30)],
      [day |-> 5, day_name |-> "Someday", date |-> None,
       total_nutrition |-> Nutrition(1801,  90, 201, 65, 25)],
      [day |-> 2, day_name |-> "Friday",  date |-> None,
       total_nutrition |-> Nutrition(2203, 120, 275, 80, 34)] }

DaySeqs == UNION { [1..n -> AgentDays] : n \in 0..MaxBatchDays }

AgentWeekSummary ==
    [average_daily_calories |-> 1999, average_daily_protein |-> 999,
     average_daily_carbs |-> 999, average_daily_fat |-> 999,
     average_daily_fiber |-> 999, inventory_utilization_rate |-> 999]

AgentShopping(n) ==
    ShoppingList([c \in {"proteins"} |-> <<Item(Some("Rice"), Some(Num(2)), Some(Num(5)))>>],
                 Some(Num(40)), Some(Num(n)), Some(Num(6)))

\* a complete envelope around the given optional days
FullBatch(days) ==
    [user_summary |-> TRUE,
     meal_plan |-> Some([days |-> days, week_summary |-> Some(AgentWeekSummary)]),
     recommendations |-> Some([shopping_list_summary |-> Some(AgentShopping(2))]),
     metadata |-> Some([agent_version |-> "agent"])]

\* the envelopes an agent reply may parse to, around the given optional days
BatchShapes(days) ==
    { FullBatch(days),
      [FullBatch(days) EXCEPT !.metadata = None],
      [FullBatch(days) EXCEPT !.user_summary = FALSE],
      [FullBatch(days) EXCEPT !.meal_plan = Some([days |-> days, week_summary |-> None])],
      [FullBatch(days) EXCEPT !.recommendations = Some([shopping_list_summary |-> None])] }

\* shopping-list items as an agent may return them: names in any case and spacing,
\* quantities as numbers, numeric strings, other strings, null or left out
ItemSamples ==
    { Item(Some("Rice"),  Some(Num(2)),    Some(Num(5))),
      Item(Some("RICE"),  Some(NumStr(3)), Some(Num(7))),
      Item(Some("Rice "), Some(Num(4)),    Some(Num(4))),
      Item(Some("Rice"),  Some(Text),      Some(Num(6))),
      Item(Some("RICE"),  Some(Num(1)),    Some(Text)),
      Item(Some("rice"),  Some(Null),      None),
      Item(Some("Beans"), None,            Some(Num(3))),
      Item(None,          Some(Num(9)),    Some(Num(9))) }

\* shopping_list_summary values of a reply: item lists of one category under plain
\* totals, one item under a category in or outside the merged ones, totals of any kind
ShoppingSamples ==
    LET ItemLists    == UNION { [1..n -> ItemSamples] : n \in 0..MaxItems }
        CostSamples  == { None, Some(Null), Some(Num(40)), Some(NumStr(12)) }
        CountSamples == { None, Some(Null), Some(Text), Some(Num(2)), Some(NumStr(5)),
                          Some(Num(-1)) }
    IN
    { ShoppingList([c \in {"proteins"} |-> l], Some(Num(40)), Some(Num(2)), Some(Num(6))) :
        l \in ItemLists }
    \cup { ShoppingList([c \in {k} |-> <<Item(Some("Beans"), Some(Num(1)), Some(Num(1)))>>],
                        Some(Num(40)), Some(Num(2)), Some(Num(6))) :
             k \in {"produce", "pantry_items"} }
    \cup { ShoppingList(<<>>, cost, from_inventory, Some(Num(6))) :
             cost \in CostSamples, from_inventory \in CountSamples }
    \cup { ShoppingList(<<>>, Some(Num(40)), Some(Num(2)), to_purchase) :
             to_purchase \in CountSamples }
    \cup { EmptyDict }

\* one-day batches that differ in their shopping list only
ShoppingInputs ==
    LET batch == FullBatch(Some(<<CHOOSE d \in AgentDays : d.day = 1>>))
    IN  { Some([batch EXCEPT !.recommendations = Some([shopping_list_summary |-> sl])]) :
            sl \in {None} \cup { Some(l) : l \in ShoppingSamples } }

\* extract_json_from_response results: None or a parsed envelope
MergeInputs ==
    {None}
    \cup { Some(b) : b \in BatchShapes(None) }
    \cup { Some([FullBatch(None) EXCEPT !.meal_plan = None]) }
    \cup { Some(b) : b \in UNION { BatchShapes(Some(ds)) : ds \in DaySeqs } }

\* the replies drawn in a scheduled run
WorkflowInputs ==
    { None, Some(FullBatch(Some(<<CHOOSE d \in AgentDays : d.day = 5>>))) }

\* len(inventory_df)
InventoryCounts == {0, 3}
WorkflowInventoryCounts == {3}
TargetDates == {Today}
RowDates == {Today - 3, Today, Today + 1}

ScheduleRows ==
    [user_id : Users, next_plan_date : RowDates, status : {"ACTIVE", "INACTIVE"}]

\* schedule ids are arbitrary (uuid4): tables are listed once, rows in the order of RowRank
RowRank(r) ==
    (r.user_id * 100 + (r.next_plan_date - Today) + 50) * 2 + (IF r.status = "ACTIVE" THEN 1 ELSE 0)

InitialTables ==
    { t \in UNION { [1..n -> ScheduleRows] : n \in 0..InitSchedules } :
        \A i, j \in DOMAIN t : i < j => RowRank(t[i]) <= RowRank(t[j]) }

----------------------------------------------------------------------------
(* The planning_schedule table *)

\* the test on status left out of the WHERE clause
DueSchedules_AnyStatus(ps, date) == { s \in DOMAIN ps : ps[s].next_plan_date <= date }

\* SELECT ... WHERE next_plan_date <= %s AND status = 'ACTIVE'
DueSchedules(ps, date) ==
    { s \in DOMAIN ps : ps[s].next_plan_date <= date /\ ps[s].status = "ACTIVE" }

DueUsers(ps, date) == { ps[s].user_id : s \in DueSchedules(ps, date) }

ActiveSchedules(ps, u) ==
    { s \in DOMAIN ps : ps[s].user_id = u /\ ps[s].status = "ACTIVE" }

RECURSIVE OrderByUserId(_)
\* ORDER BY user_id
OrderByUserId(S) ==
    IF S = {} THEN <<>>
    ELSE LET m == CHOOSE x \in S : \A y \in S : x <= y
         IN  <<m>> \o OrderByUserId(S \ {m})

\* UPDATE planning_schedule SET status = 'INACTIVE' WHERE user_id = %s AND schedule_id != %s
DeactivateOthers(ps, u, sid) ==
    [s \in DOMAIN ps |->
        IF ps[s].user_id = u /\ s # sid THEN [ps[s] EXCEPT !.status = "INACTIVE"] ELSE ps[s]]

\* next_date = datetime.now().date() + timedelta(days=7)
NextDate == Today + AdvanceDays

\* the UPDATE of next_plan_date left out
SetNextPlanDate_Skipped(ps, sid, next_date) == ps

\* UPDATE planning_schedule SET next_plan_date = %s WHERE schedule_id = %s
SetNextPlanDate(ps, sid, next_date) ==
    [s \in DOMAIN ps |->
        IF s = sid THEN [ps[s] EXCEPT !.next_plan_date = next_date] ELSE ps[s]]

----------------------------------------------------------------------------
(* The state of the application's other operations, which a scheduled run leaves alone *)

Extraction == <<raw_response, extracted>>
PlanGraph == <<meal_plan_json, error, inventory_df, start_date_kwarg>>

MealTables == <<daily_meals, meal_details>>
Chat == <<entry, user_input, chat_model, chat_state, stream, reply>>

Application ==
    <<Extraction, PlanGraph, raised, MealTables, llm, request, adjustment_result, Chat,
      other_run>>

\* initial_state of MealPlanWorkflow.run(target_date), with the graph's entry point
initial_state(target_date) ==
    [pc |-> "fetch_users", current_date |-> target_date, users_to_process |-> <<>>,
     current_user_index |-> 0, current_user |-> <<>>, user_data |-> <<>>,
     generated_plan |-> <<>>, success_count |-> 0, failure_count |-> 0, errors |-> {},
     retry_count |-> 0, persist_calls |-> 0]

\* ChatRouterState as run_chat and run_chat_stream construct it; the key
\* 'final_messages' is left out there and reads as None
InitialChatState ==
    [route |-> None, retrieved_data |-> None, response |-> "", final_messages |-> None,
     monitoring_warnings |-> None]

\* final_response = "", response_yielded = False, final_messages = None; nothing yielded
InitialStream ==
    [final_response |-> "", response_yielded |-> FALSE, final_messages |-> None,
     yielded |-> <<>>]

\* the variables of the named parts of the application as they are after construction,
\* before any of their operations has run
Idle(parts) ==
    /\ IF "workflow" \in parts
       THEN /\ current_date = Today
            /\ users_to_process = <<>>
            /\ current_user_index = 0
            /\ current_user = None
            /\ user_data = None
            /\ generated_plan = None
            /\ success_count = 0
            /\ failure_count = 0
            /\ errors = {}
            /\ retry_count = 0
            /\ data_1 = None
            /\ data_2 = None
            /\ planning_schedule = <<>>
            /\ meal_plans = [u \in Users |-> 0]
            /\ persist_calls = 0
            /\ other_run = initial_state(Today)
       ELSE TRUE
    /\ IF "extraction" \in parts
       THEN /\ raw_response = <<>>
            /\ extracted = None
       ELSE TRUE
    /\ IF "plan_graph" \in parts
       THEN /\ meal_plan_json = None
            /\ error = None
            /\ inventory_df = 0
            /\ start_date_kwarg = None
       ELSE TRUE
    /\ IF "adjustment" \in parts
       THEN /\ daily_meals = <<>>
            /\ meal_details = <<>>
            /\ llm = FALSE
            /\ request = None
            /\ adjustment_result = None
       ELSE TRUE
    /\ IF "chat" \in parts
       THEN /\ entry = ""
            /\ user_input = {}
            /\ chat_model = FALSE
            /\ chat_state = InitialChatState
            /\ stream = InitialStream
            /\ reply = None
       ELSE TRUE

----------------------------------------------------------------------------
(* MealPlanWorkflow.run: the initial state dict and the tables it meets *)

Init ==
    /\ pc = "fetch_users"
    /\ current_date \in TargetDates
    /\ users_to_process = <<>>
    /\ current_user_index = 0
    /\ current_user = None
    /\ user_data = None
    /\ generated_plan = None
    /\ success_count = 0
    /\ failure_count = 0
    /\ errors = {}
    /\ retry_count = 0
    /\ data_1 = None
    /\ data_2 = None
    /\ planning_schedule \in InitialTables
    /\ meal_plans = [u \in Users |-> 0]
    /\ persist_calls = 0
    /\ other_run = initial_state(Today)
    /\ Idle({"extraction", "plan_graph", "adjustment", "chat"})
    /\ raised = FALSE

Tables == <<planning_schedule, meal_plans>>
Batches == <<data_1, data_2>>

----------------------------------------------------------------------------
(* AGENT 1: agent_fetch_users, then check_users_available *)

agent_fetch_users ==
    /\ pc = "fetch_users"
    /\ pc' = "check_users_available"
    /\ \/ \* the query succeeds: one entry per user, the first row met for it
          /\ \E rep \in [DueUsers(planning_schedule, current_date) ->
                            DueSchedules(planning_schedule, current_date)] :
                /\ \A u \in DOMAIN rep : planning_schedule[rep[u]].user_id = u
                /\ LET order == OrderByUserId(DOMAIN rep)
                   IN  users_to_process' =
                           [i \in 1..Len(order) |->
                               [user_id |-> order[i],
                                next_plan_date |-> planning_schedule[rep[order[i]]].next_plan_date,
                                schedule_id |-> rep[order[i]]]]
          /\ current_user_index' = 0
          /\ UNCHANGED errors
       \/ \* the query raises
          /\ errors' = errors \cup {[agent |-> "fetch_users", user_id |-> 0]}
          /\ UNCHANGED <<users_to_process, current_user_index>>
    /\ UNCHANGED <<current_date, current_user, user_data, generated_plan, success_count,
                   failure_count, retry_count, Batches, Application, Tables, persist_calls>>

check_users_available ==
    /\ pc = "check_users_available"
    /\ pc' = IF Len(users_to_process) > 0 THEN "aggregate_data" ELSE "END"
    /\ UNCHANGED <<current_date, users_to_process, current_user_index, current_user,
                   user_data, generated_plan, success_count, failure_count, errors,
                   retry_count, Batches, Application, Tables, persist_calls>>

----------------------------------------------------------------------------
(* AGENT 2: agent_aggregate_user_data *)

agent_aggregate_user_data(inventory_counts) ==
    /\ pc = "aggregate_data"
    /\ pc' = "generate_plan"
    /\ IF users_to_process = <<>> \/ current_user_index >= Len(users_to_process)
       THEN UNCHANGED <<current_user, user_data, errors>>
       ELSE LET user == users_to_process[current_user_index + 1]
            IN  \/ \* the profile, inventory and preferences are read
                   /\ current_user' = Some(user)
                   /\ \E n \in inventory_counts :
                         user_data' = Some([user_id |-> user.user_id, inventory_count |-> n])
                   /\ UNCHANGED errors
                \/ \* a query raises, or the user has no profile row
                   /\ errors' = errors \cup {[agent |-> "aggregate_data", user_id |-> user.user_id]}
                   /\ UNCHANGED <<current_user, user_data>>
    /\ UNCHANGED <<current_date, users_to_process, current_user_index, generated_plan,
                   success_count, failure_count, retry_count, Batches, Application, Tables, persist_calls>>

----------------------------------------------------------------------------
(* AGENT 3: agent_generate_meal_plan *)

\* the plan stored when nothing raises, for the two extracted batches
GeneratedFrom(d1, d2, total_inventory_count, start_date_obj) ==
    LET merged_plan == MergeBatches(d1, d2, total_inventory_count, start_date_obj)
    IN  IF merged_plan # None THEN merged_plan ELSE Some(generate_mock_meal_plan)

\* replies_1, replies_2: what extract_json_from_response may return for batch 1 and batch 2
agent_generate_meal_plan(replies_1, replies_2) ==
    /\ pc = "generate_plan"
    /\ pc' = "consolidate_list"
    /\ IF user_data = None
       THEN UNCHANGED <<generated_plan, errors>>
       ELSE \/ \* the agent is unavailable: no batch is requested, the mock is used
               /\ generated_plan' = Some(generate_mock_meal_plan)
               /\ UNCHANGED errors
            \/ \* both batches are requested and extracted
               /\ current_user # None
               /\ \E d1 \in replies_1, d2 \in replies_2 :
                     generated_plan' =
                         GeneratedFrom(d1, d2, Val(user_data).inventory_count,
                                       Val(current_user).next_plan_date)
               /\ UNCHANGED errors
            \/ \* something raises: the error is recorded and the mock is tried
               /\ errors' = errors \cup {[agent |-> "generate_plan",
                                            user_id |-> Val(user_data).user_id]}
               /\ generated_plan' \in {Some(generate_mock_meal_plan), None}
    /\ UNCHANGED <<current_date, users_to_process, current_user_index, current_user,
                   user_data, success_count, failure_count, retry_count, Batches, Application, Tables,
                   persist_calls>>

----------------------------------------------------------------------------
(* AGENT 3.5: agent_consolidate_shopping_list *)

\* a consolidated list as the agent may return it
ConsolidatedList ==
    ShoppingList([c \in {"proteins"} |-> <<Item(Some("Rice"), Some(Num(4)), Some(Num(10)))>>],
                 Some(Num(35)), Some(Num(1)), Some(Num(4)))

agent_consolidate_shopping_list ==
    /\ pc = "consolidate_list"
    /\ pc' = "persist_plan"
    /\ IF generated_plan = None
       THEN UNCHANGED generated_plan
       ELSE IF ShoppingOf(Val(generated_plan)) = None
       THEN UNCHANGED generated_plan
       ELSE \/ \* no agent, an exception, or a reply that is no dict: the list is kept
               UNCHANGED generated_plan
            \/ \* the reply parses to a dict and replaces the list
               generated_plan' = Some(WithShopping(Val(generated_plan), ConsolidatedList))
    /\ UNCHANGED <<current_date, users_to_process, current_user_index, current_user,
                   user_data, success_count, failure_count, errors, retry_count,
                   Batches, Application, Tables, persist_calls>>

----------------------------------------------------------------------------
(* AGENT 4: agent_persist_plan *)

\* the reset after the bound is exceeded forgotten
RetryAfterFailure_NoReset(rc) == rc + 1

\* retry_count after a failed attempt has been counted
RetryAfterFailure(rc) == IF rc + 1 > max_retries THEN 0 ELSE rc + 1

\* failure_count after a failed attempt has been counted
FailuresAfterFailure(fc, rc) == IF rc + 1 > max_retries THEN fc + 1 ELSE fc

\* the rollback left out: what the statements before the exception wrote stays
rollback_Skipped(committed, pending) == pending

\* self.conn.rollback(): the table as of the last commit, whatever the UPDATEs run since
\* then have written. The connection is taken to hold statements until commit(), as the
\* explicit commit() and rollback() calls imply; get_snowflake_connection sets no
\* autocommit option either way.
rollback(committed, pending) == committed

agent_persist_plan ==
    /\ pc = "persist_plan"
    /\ pc' = "route_next_step"
    /\ IF current_user = None
       THEN UNCHANGED <<success_count, failure_count, errors, retry_count, Tables, persist_calls>>
       ELSE /\ persist_calls' = persist_calls + 1
            /\ IF generated_plan = None \/ user_data = None
               THEN /\ retry_count' = RetryAfterFailure(retry_count)
                    /\ failure_count' = FailuresAfterFailure(failure_count, retry_count)
                    /\ UNCHANGED <<success_count, errors, Tables>>
               ELSE LET user_id     == Val(user_data).user_id
                        schedule_id == Val(current_user).schedule_id
                    IN  \/ \* save_meal_plan returns, both UPDATEs and the commit go through
                           /\ \E saved \in BOOLEAN :
                                 meal_plans' = [meal_plans EXCEPT ![user_id] =
                                                   IF saved THEN @ + 1 ELSE @]
                           /\ planning_schedule' =
                                  SetNextPlanDate(
                                      DeactivateOthers(planning_schedule, user_id, schedule_id),
                                      schedule_id, NextDate)
                           /\ success_count' = success_count + 1
                           /\ retry_count' = 0
                           /\ UNCHANGED <<failure_count, errors>>
                        \/ \* an exception: rollback; a plan save_meal_plan committed stays
                           /\ \E saved \in BOOLEAN :
                                 meal_plans' = [meal_plans EXCEPT ![user_id] =
                                                   IF saved THEN @ + 1 ELSE @]
                           /\ \E pending \in
                                    { planning_schedule,
                                      DeactivateOthers(planning_schedule, user_id, schedule_id),
                                      SetNextPlanDate(
                                          DeactivateOthers(planning_schedule, user_id,
                                                           schedule_id),
                                          schedule_id, NextDate) } :
                                 planning_schedule' = rollback(planning_schedule, pending)
                           /\ retry_count' = RetryAfterFailure(retry_count)
                           /\ failure_count' = FailuresAfterFailure(failure_count, retry_count)
                           /\ errors' = IF retry_count + 1 > max_retries
                                        THEN errors \cup {[agent |-> "persist_plan",
                                                             user_id |-> user_id]}
                                        ELSE errors
                           /\ UNCHANGED success_count
    /\ UNCHANGED <<current_date, users_to_process, current_user_index, current_user,
                   user_data, generated_plan, Batches, Application>>

----------------------------------------------------------------------------
(* ROUTING: route_next_step *)

\* "<" written for "<=": the last retry is never taken
IsRetry_Strict(rc) == rc > 0 /\ rc < max_retries

\* the test "retry_count > 0" dropped
IsRetry_NoLowerBound(rc) == rc <= max_retries

\* the retry test of route_next_step
IsRetry(rc) == rc > 0 /\ rc <= max_retries

\* the increment forgotten
NextUserIndex_Stuck(i) == i

\* the index incremented twice
NextUserIndex_Skip(i) == i + 2

\* state['current_user_index'] += 1
NextUserIndex(i) == i + 1

route_next_step ==
    /\ pc = "route_next_step"
    /\ IF IsRetry(retry_count)
       THEN /\ pc' = "aggregate_data"
            /\ UNCHANGED <<current_user_index, retry_count, current_user, user_data,
                           generated_plan, persist_calls>>
       ELSE /\ current_user_index' = NextUserIndex(current_user_index)
            /\ retry_count' = 0
            /\ current_user' = None
            /\ user_data' = None
            /\ generated_plan' = None
            /\ persist_calls' = 0
            /\ pc' = IF NextUserIndex(current_user_index) < Len(users_to_process)
                     THEN "aggregate_data" ELSE "END"
    /\ UNCHANGED <<current_date, users_to_process, success_count, failure_count, errors,
                   Batches, Application, Tables>>

----------------------------------------------------------------------------
(* The interactive path: generate_new_meal_plan inserts a schedule and a plan *)

generate_new_meal_plan(user_id) ==
    /\ Cardinality(DOMAIN planning_schedule) < MaxSchedules
    /\ LET schedule_id == Cardinality(DOMAIN planning_schedule) + 1
           tomorrow    == Today + 1
       IN  planning_schedule' =
               [s \in 1..schedule_id |->
                   IF s = schedule_id
                   THEN [user_id |-> user_id, next_plan_date |-> tomorrow + 5,
                         status |-> "ACTIVE"]
                   ELSE planning_schedule[s]]
    /\ meal_plans' = [meal_plans EXCEPT ![user_id] = @ + 1]
    /\ UNCHANGED <<pc, current_date, users_to_process, current_user_index, current_user,
                   user_data, generated_plan, success_count, failure_count, errors,
                   retry_count, Batches, Application, persist_calls>>

----------------------------------------------------------------------------
(* Specifications *)

WorkflowNext ==
    \/ agent_fetch_users
    \/ check_users_available
    \/ agent_aggregate_user_data(WorkflowInventoryCounts)
    \/ agent_generate_meal_plan(WorkflowInputs, WorkflowInputs)
    \/ agent_consolidate_shopping_list
    \/ agent_persist_plan
    \/ route_next_step

Next == WorkflowNext

\* one scheduled run
Spec == Init /\ [][Next]_vars

\* tables in which every row is ACTIVE and due: the loop meets the table only through
\* the list of due users
DueTables ==
    { t \in InitialTables :
        \A i \in DOMAIN t : t[i].status = "ACTIVE" /\ t[i].next_plan_date <= Today }

FairInit == Init /\ planning_schedule \in DueTables

\* the graph runtime runs the next node as long as there is one
FairSpec == FairInit /\ [][Next]_vars /\ WF_vars(Next)

InteractiveNext == \E u \in Users : generate_new_meal_plan(u)

\* the application's "New Plan" button, pressed any number of times
InteractiveSpec == Init /\ [][InteractiveNext]_vars

\* the state dict of the run that is stepping, with the node it is at
state ==
    [pc |-> pc, current_date |-> current_date, users_to_process |-> users_to_process,
     current_user_index |-> current_user_index, current_user |-> current_user,
     user_data |-> user_data, generated_plan |-> generated_plan,
     success_count |-> success_count, failure_count |-> failure_count,
     errors |-> errors, retry_count |-> retry_count, persist_calls |-> persist_calls]

\* the runtime leaves the stepping run between two nodes and steps the other one: the
\* two state dicts change places, the tables are the ones both runs read and write
switch_run ==
    /\ other_run' = state
    /\ pc' = other_run.pc
    /\ current_date' = other_run.current_date
    /\ users_to_process' = other_run.users_to_process
    /\ current_user_index' = other_run.current_user_index
    /\ current_user' = other_run.current_user
    /\ user_data' = other_run.user_data
    /\ generated_plan' = other_run.generated_plan
    /\ success_count' = other_run.success_count
    /\ failure_count' = other_run.failure_count
    /\ errors' = other_run.errors
    /\ retry_count' = other_run.retry_count
    /\ persist_calls' = other_run.persist_calls
    /\ UNCHANGED <<Batches, Tables, Extraction, PlanGraph, raised, MealTables, llm, request,
                   adjustment_result, Chat>>

\* two runs of the workflow for the same target date over the same tables (two scheduler
\* instances, or a run and its retry), stepped node by node in any order
ConcurrentInit ==
    /\ Init
    /\ planning_schedule \in DueTables
    /\ Len(planning_schedule) = 1

ConcurrentSpec == ConcurrentInit /\ [][Next \/ switch_run]_vars

\* agent_generate_meal_plan on its own: one user, the two agent replies given
StartDates == {Today, Today + 3}

MergeInit ==
    /\ pc = "generate_plan"
    /\ current_date = Today
    /\ \E d \in StartDates :
          /\ users_to_process = <<[user_id |-> 1, next_plan_date |-> d, schedule_id |-> 1]>>
          /\ current_user = Some(users_to_process[1])
          /\ planning_schedule = <<[user_id |-> 1, next_plan_date |-> d, status |-> "ACTIVE"]>>
    /\ current_user_index = 0
    /\ \E n \in InventoryCounts : user_data = Some([user_id |-> 1, inventory_count |-> n])
    /\ generated_plan = None
    /\ success_count = 0
    /\ failure_count = 0
    /\ errors = {}
    /\ retry_count = 0
    /\ data_1 \in MergeInputs
    /\ data_2 \in MergeInputs
    /\ meal_plans = [u \in Users |-> 0]
    /\ persist_calls = 0
    /\ other_run = initial_state(Today)
    /\ Idle({"extraction", "plan_graph", "adjustment", "chat"})
    /\ raised = FALSE

MergeNext == agent_generate_meal_plan({data_1}, {data_2})

MergeSpec == MergeInit /\ [][MergeNext]_vars

\* the same step over batches that differ in their shopping lists
ShoppingInit ==
    /\ pc = "generate_plan"
    /\ current_date = Today
    /\ users_to_process = <<[user_id |-> 1, next_plan_date |-> Today, schedule_id |-> 1]>>
    /\ current_user = Some(users_to_process[1])
    /\ planning_schedule = <<[user_id |-> 1, next_plan_date |-> Today, status |-> "ACTIVE"]>>
    /\ current_user_index = 0
    /\ \E n \in InventoryCounts : user_data = Some([user_id |-> 1, inventory_count |-> n])
    /\ generated_plan = None
    /\ success_count = 0
    /\ failure_count = 0
    /\ errors = {}
    /\ retry_count = 0
    /\ data_1 \in ShoppingInputs
    /\ data_2 \in ShoppingInputs
    /\ meal_plans = [u \in Users |-> 0]
    /\ persist_calls = 0
    /\ other_run = initial_state(Today)
    /\ Idle({"extraction", "plan_graph", "adjustment", "chat"})
    /\ raised = FALSE

ShoppingSpec == ShoppingInit /\ [][MergeNext]_vars

Workflow ==
    <<current_date, users_to_process, current_user_index, current_user, user_data,
      generated_plan, success_count, failure_count, errors, retry_count, Batches, Tables,
      persist_calls, other_run>>

\* the scheduled task after workflow.run has returned final_state: it raises when
\* failure_count > 0 and finishes otherwise
run_meal_plan_automation ==
    /\ pc = "END"
    /\ pc' = "task_done"
    /\ raised' = (failure_count > 0)
    /\ UNCHANGED <<Workflow, Extraction, PlanGraph, MealTables, llm, request,
                   adjustment_result, Chat>>

\* one execution of the task run_meal_plan_generation: the run, then the task's check
TaskSpec == Init /\ [][Next \/ run_meal_plan_automation]_vars

\* one call of extract_json_from_response on a response text
ExtractInit ==
    /\ pc = "extract_json_from_response"
    /\ Idle({"workflow", "plan_graph", "adjustment", "chat"})
    /\ raised = FALSE
    /\ raw_response \in Texts
    /\ extracted = None

ExtractNext ==
    /\ pc = "extract_json_from_response"
    /\ pc' = "returned"
    /\ extracted' = Some(extract_json_from_response(raw_response))
    /\ UNCHANGED <<Workflow, PlanGraph, raised, raw_response, MealTables, llm,
                   request, adjustment_result, Chat>>

ExtractSpec == ExtractInit /\ [][ExtractNext]_vars

----------------------------------------------------------------------------
(* The interactive graph of MealPlanAgentWithExtraction: generate_plan, then
   generate_suggestions *)

\* replies_1, replies_2: what extract_json_from_response may return for batch 1 and batch 2
node_generate_plan(replies_1, replies_2) ==
    /\ pc = "node_generate_plan"
    /\ pc' = "node_generate_suggestions"
    /\ \/ \* self.agent is None: the mock is used
          /\ meal_plan_json' = Some(generate_mock_meal_plan)
          /\ UNCHANGED error
       \/ \* both batches are requested and extracted
          \E d1 \in replies_1, d2 \in replies_2 :
             IF d1 # None /\ d2 # None
             THEN LET merged_plan == MergeResults(Val(d1), Val(d2), inventory_df)
                      named       == fix_day_names_in_plan(merged_plan)
                  IN  IF validate_meal_plan_structure(merged_plan)
                      THEN /\ IF ShoppingOf(named) # None
                              THEN \* consolidate_shopping_list hands back the agent's dict,
                                   \* or the original list when there is no agent, the reply
                                   \* is no dict or an exception is caught
                                   \E consolidated \in
                                         {Val(ShoppingOf(named)), ConsolidatedList} :
                                      meal_plan_json' = Some(WithShopping(named, consolidated))
                              ELSE meal_plan_json' = Some(named)
                           /\ UNCHANGED error
                      ELSE /\ error' = Some("Merged meal plan structure is invalid")
                           /\ UNCHANGED meal_plan_json
             ELSE /\ error' = Some("Failed to generate one of the batches")
                  /\ UNCHANGED meal_plan_json
       \/ \* something raises: the message is recorded and the mock is used
          /\ error' = Some("str(e)")
          /\ meal_plan_json' = Some(generate_mock_meal_plan)
    /\ UNCHANGED <<Workflow, Extraction, inventory_df, start_date_kwarg, raised,
                   MealTables, llm, request, adjustment_result, Chat>>

\* node_generate_suggestions writes suggestions_json only
node_generate_suggestions ==
    /\ pc = "node_generate_suggestions"
    /\ pc' = "END"
    /\ UNCHANGED <<Workflow, Application>>

\* one run of the graph, the two extracted batches given
NodeInit ==
    /\ pc = "node_generate_plan"
    /\ current_date = Today
    /\ users_to_process = <<>>
    /\ current_user_index = 0
    /\ current_user = None
    /\ user_data = None
    /\ generated_plan = None
    /\ success_count = 0
    /\ failure_count = 0
    /\ errors = {}
    /\ retry_count = 0
    /\ data_1 \in MergeInputs
    /\ data_2 \in MergeInputs
    /\ planning_schedule = <<>>
    /\ meal_plans = [u \in Users |-> 0]
    /\ persist_calls = 0
    /\ other_run = initial_state(Today)
    /\ Idle({"extraction", "adjustment", "chat"})
    /\ meal_plan_json = None
    /\ error = None
    /\ inventory_df \in InventoryCounts
    /\ start_date_kwarg = None
    /\ raised = FALSE

NodeNext ==
    \/ node_generate_plan({data_1}, {data_2})
    \/ node_generate_suggestions

NodeSpec == NodeInit /\ [][NodeNext]_vars

----------------------------------------------------------------------------
(* A call of fix_day_names_in_plan on a plan, as tests/verify_meal_plan_dates.py makes it *)

\* agent.fix_day_names_in_plan(meal_plan_data.copy()[, start_date=...]): the method
\* takes meal_plan_data only, so a call that names start_date raises TypeError
call_fix_day_names_in_plan ==
    /\ pc = "fix_day_names_in_plan"
    /\ pc' = "returned"
    /\ IF start_date_kwarg # None
       THEN /\ raised' = TRUE
            /\ UNCHANGED meal_plan_json
       ELSE /\ meal_plan_json' = Some(fix_day_names_in_plan(Val(meal_plan_json)))
            /\ UNCHANGED raised
    /\ UNCHANGED <<Workflow, Extraction, error, inventory_df, start_date_kwarg,
                   MealTables, llm, request, adjustment_result, Chat>>

FixInit ==
    /\ pc = "fix_day_names_in_plan"
    /\ Idle({"workflow", "extraction", "adjustment", "chat"})
    /\ meal_plan_json \in {d \in MergeInputs : d # None}
    /\ error = None
    /\ inventory_df = 0
    /\ start_date_kwarg \in {None, Some(Today), Some(Today + 10)}
    /\ raised = FALSE

FixSpec == FixInit /\ [][call_fix_day_names_in_plan]_vars

----------------------------------------------------------------------------
(* Tables daily_meals and meal_details, and the helpers of utils.db over them.
   Nutrition values are in hundredths. *)

NutritionKeys == {"calories", "protein_g", "carbohydrates_g", "fat_g", "fiber_g"}

MealTypes == {"breakfast", "lunch", "dinner", "snacks"}

\* SELECT of the day's row for a user and a date: its id, or None
get_daily_meal_id(user_id, date) ==
    LET found == { id \in DOMAIN daily_meals :
                      /\ daily_meals[id].user_id = user_id
                      /\ daily_meals[id].meal_date = date }
    IN  IF found = {} THEN None ELSE Some(CHOOSE id \in found : \A o \in found : id <= o)

\* SELECT of the meal of a type within a day: its id, or None
get_meal_detail_id(daily_meal_id, meal_type) ==
    LET found == { id \in DOMAIN meal_details :
                      /\ meal_details[id].daily_meal_id = daily_meal_id
                      /\ meal_details[id].meal_type = meal_type }
    IN  IF found = {} THEN None ELSE Some(CHOOSE id \in found : \A o \in found : id <= o)

\* UPDATE of one meal_details row with the name and the nutrition of meal_data
update_meal_detail(details, detail_id, meal_data) ==
    [details EXCEPT ![detail_id].meal_name = meal_data.meal_name,
                    ![detail_id].nutrition = meal_data.nutrition]

\* SELECT of the nutrition columns of every meal of a day
get_all_meal_details_for_day(details, daily_meal_id) ==
    LET rows == SelectSeq(details, LAMBDA row : row.daily_meal_id = daily_meal_id)
    IN  [i \in 1..Len(rows) |-> rows[i].nutrition]

\* UPDATE of the day's stored totals
update_daily_nutrition(days, daily_meal_id, total_nutrition) ==
    [days EXCEPT ![daily_meal_id].total_nutrition = total_nutrition]

----------------------------------------------------------------------------
(* MealAdjustmentAgent.process_request *)

\* total_nutrition[k] += meal.get(k, 0) over all_meals, before rounding
RECURSIVE SumNutrition_SkipFirst(_, _)
SumNutrition_SkipFirst(all_meals, k) ==
    IF Len(all_meals) <= 1 THEN 0
    ELSE all_meals[2][k] + SumNutrition_SkipFirst(Tail(all_meals), k)

RECURSIVE SumNutrition(_, _)
SumNutrition(all_meals, k) ==
    IF all_meals = <<>> THEN 0
    ELSE all_meals[1][k] + SumNutrition(Tail(all_meals), k)

\* round(v, 1) of a float holding v hundredths: the nearest tenth; when v lies
\* halfway the float is not exactly v and either neighbour may come out
round_1(v) ==
    LET down == (v \div 10) * 10
    IN  IF v % 10 < 5 THEN {down}
        ELSE IF v % 10 > 5 THEN {down + 10}
        ELSE {down, down + 10}

\* the total_nutrition dicts the rounding loop may leave
RoundedTotals(all_meals) ==
    [calories        : round_1(SumNutrition(all_meals, "calories")),
     protein_g       : round_1(SumNutrition(all_meals, "protein_g")),
     carbohydrates_g : round_1(SumNutrition(all_meals, "carbohydrates_g")),
     fat_g           : round_1(SumNutrition(all_meals, "fat_g")),
     fiber_g         : round_1(SumNutrition(all_meals, "fiber_g"))]

\* meal_data dicts the LLM's reply may parse to; meal_name None: the key is missing
MealDataSamples ==
    { [intent |-> "report", meal_name |-> Some("Burger"),
       nutrition |-> Nutrition(55025, 3015, 4000, 2535, 305)],
      [intent |-> "append", meal_name |-> Some("Oatmeal with berries"),
       nutrition |-> Nutrition(30000, 1000, 5410, 600, 800)],
      [intent |-> "report", meal_name |-> None,
       nutrition |-> Nutrition(20000, 500, 3000, 400, 100)] }

Failure(message) ==
    Some([status |-> "error", message |-> message, data |-> None, new_daily_total |-> None])

process_request(user_id, date, meal_type) ==
    IF ~llm
    THEN /\ adjustment_result' = Failure("Agent offline")
         /\ UNCHANGED MealTables
    ELSE LET daily_meal_id == get_daily_meal_id(user_id, date)
         IN  IF daily_meal_id = None
             THEN /\ adjustment_result' = Failure("No meal plan found for this date.")
                  /\ UNCHANGED MealTables
             ELSE LET detail_id == get_meal_detail_id(Val(daily_meal_id), meal_type)
                  IN  IF detail_id = None
                      THEN /\ adjustment_result' = Failure("No {meal_type} found for this date.")
                           /\ UNCHANGED MealTables
                      ELSE \/ \* the LLM call raises, or its reply does not parse to a dict
                              /\ adjustment_result' = Failure("Error processing request: {e}")
                              /\ UNCHANGED MealTables
                           \/ \* update_meal_detail reports no success
                              /\ adjustment_result' = Failure("Failed to update meal in database.")
                              /\ UNCHANGED MealTables
                           \/ \* the row is updated, then reading the day's meals, adding
                              \* them up or writing the totals raises
                              \E meal_data \in MealDataSamples :
                                 /\ meal_details' = update_meal_detail(meal_details,
                                                                       Val(detail_id), meal_data)
                                 /\ adjustment_result' = Failure("Error processing request: {e}")
                                 /\ UNCHANGED daily_meals
                           \/ \* the row is updated and the day's totals are recomputed
                              \E meal_data \in MealDataSamples :
                                 LET updated   == update_meal_detail(meal_details, Val(detail_id),
                                                                     meal_data)
                                     all_meals == get_all_meal_details_for_day(updated,
                                                                               Val(daily_meal_id))
                                 IN  \E total_nutrition \in RoundedTotals(all_meals) :
                                        /\ meal_details' = updated
                                        /\ daily_meals' = update_daily_nutrition(daily_meals,
                                                              Val(daily_meal_id), total_nutrition)
                                        /\ adjustment_result' =
                                              IF meal_data.meal_name = None
                                              THEN Failure("Error processing request: 'meal_name'")
                                              ELSE Some([status |-> "success",
                                                         message |-> "Successfully updated {meal_type}. New item: {meal_name}.",
                                                         data |-> Some(meal_data),
                                                         new_daily_total |-> Some(total_nutrition)])

\* rows of the two tables before a request: two users, the first with two days
InitialDailyMeals ==
    << [user_id |-> 1, meal_date |-> Today,     total_nutrition |-> Nutrition(0, 0, 0, 0, 0)],
       [user_id |-> 1, meal_date |-> Today + 1, total_nutrition |-> Nutrition(0, 0, 0, 0, 0)],
       [user_id |-> 2, meal_date |-> Today,     total_nutrition |-> Nutrition(0, 0, 0, 0, 0)] >>

InitialMealDetails ==
    LET DetailNutritionSamples ==
            { Nutrition(45000, 2000, 6000, 1500, 500), Nutrition(61215, 3335, 7005, 2145, 755) }
    IN
    { << [daily_meal_id |-> 1, meal_type |-> "breakfast", meal_name |-> Some("Eggs"),  nutrition |-> a],
         [daily_meal_id |-> 1, meal_type |-> "lunch",     meal_name |-> Some("Salad"), nutrition |-> b],
         [daily_meal_id |-> 2, meal_type |-> "lunch",     meal_name |-> Some("Soup"),  nutrition |-> c],
         [daily_meal_id |-> 3, meal_type |-> "dinner",    meal_name |-> Some("Curry"), nutrition |-> a] >> :
      a \in DetailNutritionSamples, b \in DetailNutritionSamples, c \in DetailNutritionSamples }

RequestDates == {Today, Today + 1, Today + 2}

\* one call of process_request
call_process_request ==
    /\ pc = "process_request"
    /\ pc' = "returned"
    /\ process_request(Val(request).user_id, Val(request).date, Val(request).meal_type)
    /\ UNCHANGED <<Workflow, Extraction, PlanGraph, raised, llm, request, Chat>>

AdjustInit ==
    /\ pc = "process_request"
    /\ Idle({"workflow", "extraction", "plan_graph", "chat"})
    /\ raised = FALSE
    /\ daily_meals = InitialDailyMeals
    /\ meal_details \in InitialMealDetails
    /\ llm \in BOOLEAN
    /\ request \in { Some(r) : r \in [user_id : {1, 2}, date : RequestDates,
                                         meal_type : MealTypes] }
    /\ adjustment_result = None

AdjustSpec == AdjustInit /\ [][call_process_request]_vars

----------------------------------------------------------------------------
(* MealRouterAgent: the chat graph, run_chat and run_chat_stream *)

\* the phrases a message is made of
Vocabulary == {"hello", "what", "lunch", "my meal", "change", "estimate", "tomorrow"}

\* any(keyword in user_input for keyword in keywords) over the lowered message: a
\* keyword is in the message when it is a substring of one of its phrases
MentionsAny(keywords) ==
    \E keyword \in keywords, phrase \in user_input :
       \/ keyword = phrase
       \/ <<keyword, phrase>> \in {<<"meal", "my meal">>, <<"ate", "estimate">>}

meal_keywords ==
    {"meal", "recipe", "breakfast", "lunch", "dinner", "snack", "what am i eating",
     "what should i eat", "meal plan", "today", "tomorrow", "monday", "tuesday", "wednesday",
     "thursday", "friday", "saturday", "sunday", "ingredient", "what can i make", "show me",
     "get me"}

estimation_keywords == {"estimate", "calculate", "how many calories in", "nutritional info for"}

adjustment_keywords ==
    {"add", "remove", "delete", "change", "replace", "swap", "instead", "don't want", "ate",
     "had", "went to", "buffet", "restaurant", "eaten", "drank", "consumed"}

date_indicators ==
    {"jan", "feb", "mar", "apr", "may", "jun", "jul", "aug", "sep", "oct", "nov", "dec",
     "tomorrow", "yesterday", "next", "last", "monday", "tuesday", "wednesday", "thursday",
     "friday", "saturday", "sunday"}

\* state['route'] as node_route_query sets it
RouteOf ==
    LET is_adjustment_intent ==
            /\ MentionsAny(adjustment_keywords)
            /\ MentionsAny({"breakfast", "lunch", "dinner", "snack", "meal"})
            /\ ~(/\ MentionsAny({"what"})
                 /\ ~MentionsAny({"change", "replace", "swap", "add", "instead"}))
    IN
    IF is_adjustment_intent THEN "meal_adjustment"
    ELSE IF MentionsAny(estimation_keywords) /\ ~(MentionsAny({"my plan"}) \/ MentionsAny({"my meal"}))
    THEN "calorie_estimation"
    ELSE IF MentionsAny(meal_keywords) THEN "meal_retrieval"
    ELSE "general_chat"

\* should_retrieve_meals: the node that follows route_query
should_retrieve_meals(route) ==
    IF route = "meal_retrieval" THEN "retrieve_meals"
    ELSE IF route = "calorie_estimation" THEN "estimate_calories"
    ELSE IF route = "meal_adjustment" THEN "adjust_meal"
    ELSE "general_chat"

\* the status line run_chat_stream yields for a node's output, if any
StatusOf(key, value) ==
    IF key = "load_preferences" THEN <<"__STATUS__: Loading your preferences...">>
    ELSE IF key = "extract_feedback" THEN <<"__STATUS__: Analyzing your input...">>
    ELSE IF key = "route_query"
    THEN (IF value.route = Some("meal_retrieval")
          THEN <<"__STATUS__: Searching your meal plan...">>
          ELSE IF value.route = Some("calorie_estimation")
          THEN <<"__STATUS__: Analyzing food items...">>
          ELSE IF value.route = Some("meal_adjustment")
          THEN <<"__STATUS__: Processing meal adjustment...">>
          ELSE <<"__STATUS__: Thinking...">>)
    ELSE IF key \in {"retrieve_meals", "estimate_calories", "monitor_changes"}
    THEN <<"__STATUS__: Preparing response...">>
    ELSE IF key = "adjust_meal" THEN <<"__STATUS__: Verifying health constraints...">>
    ELSE <<>>

\* the body of run_chat_stream's loop for one output {key: value} of app.stream
StreamStep(key, value, locals) ==
    LET messages == IF value.final_messages # None THEN value.final_messages
                    ELSE locals.final_messages
        static   == value.response # ""
        replied  == locals.response_yielded \/ static
    IN  [final_messages   |-> messages,
         final_response   |-> IF static THEN value.response ELSE locals.final_response,
         response_yielded |-> replied,
         yielded          |-> locals.yielded
                              \o (IF static THEN <<value.response>> ELSE <<>>)
                              \o (IF replied THEN <<>> ELSE StatusOf(key, value))]

\* a node returns value; the graph moves on to the node next
NodeReturns(key, value, next) ==
    /\ pc' = next
    /\ chat_state' = value
    /\ stream' = IF entry = "run_chat_stream" THEN StreamStep(key, value, stream) ELSE stream

node_load_preferences ==
    /\ pc = "load_preferences"
    /\ NodeReturns("load_preferences", chat_state, "route_query")
    /\ UNCHANGED <<Workflow, Extraction, PlanGraph, raised, MealTables, llm, request,
                   adjustment_result, entry, user_input, chat_model, reply>>

node_route_query ==
    /\ pc = "route_query"
    /\ NodeReturns("route_query", [chat_state EXCEPT !.route = Some(RouteOf)],
                   should_retrieve_meals(RouteOf))
    /\ UNCHANGED <<Workflow, Extraction, PlanGraph, raised, MealTables, llm, request,
                   adjustment_result, entry, user_input, chat_model, reply>>

\* retrieved_data is left as the formatted meals, the nothing-found notice, or the
\* notice of a caught exception
node_retrieve_meals ==
    /\ pc = "retrieve_meals"
    /\ \E retrieved_data \in {"Found {n} meal(s):", "No meals found matching your criteria.",
                              "Error retrieving meals: {e}"} :
          NodeReturns("retrieve_meals",
                      [chat_state EXCEPT !.retrieved_data = Some(retrieved_data)],
                      "generate_response")
    /\ UNCHANGED <<Workflow, Extraction, PlanGraph, raised, MealTables, llm, request,
                   adjustment_result, entry, user_input, chat_model, reply>>

\* the (date, meal_type) pairs process_request may be called with: the rule-based
\* ones, or what the LLM extracts when the message names a date and the model is set
AdjustmentTargets ==
    LET meal_type == IF MentionsAny({"breakfast"}) THEN "breakfast"
                     ELSE IF MentionsAny({"dinner"}) THEN "dinner"
                     ELSE IF MentionsAny({"snack"}) THEN "snacks"
                     ELSE "lunch"
    IN
    {[date |-> Today, meal_type |-> meal_type]}
    \cup (IF MentionsAny(date_indicators) /\ chat_model
          THEN [date : RequestDates, meal_type : MealTypes]
          ELSE {})

node_adjust_meal ==
    /\ pc = "adjust_meal"
    /\ \E target \in AdjustmentTargets :
          /\ request' = Some([user_id |-> 1, date |-> target.date,
                               meal_type |-> target.meal_type])
          /\ process_request(1, target.date, target.meal_type)
    /\ NodeReturns("adjust_meal",
                   [chat_state EXCEPT !.response = Val(adjustment_result').message,
                                      !.final_messages = None],
                   "monitor_changes")
    /\ UNCHANGED <<Workflow, Extraction, PlanGraph, raised, llm, entry, user_input,
                   chat_model, reply>>

node_monitor_changes ==
    /\ pc = "monitor_changes"
    /\ IF adjustment_result # None /\ Val(adjustment_result).status = "success"
       THEN \* date = datetime.now().strftime('%Y-%m-%d'); the warnings are those
            \* monitor_changes(user_id, date) finds for that date
            LET date == Today
            IN  \E warnings \in {<<>>, <<"High sodium">>} :
                   NodeReturns("monitor_changes",
                               [chat_state EXCEPT !.monitoring_warnings =
                                                      Some([date |-> date, warnings |-> warnings])],
                               "generate_response")
       ELSE NodeReturns("monitor_changes", chat_state, "generate_response")
    /\ UNCHANGED <<Workflow, Extraction, PlanGraph, raised, MealTables, llm, request,
                   adjustment_result, entry, user_input, chat_model, reply>>

node_general_chat ==
    /\ pc = "general_chat"
    /\ NodeReturns("general_chat",
                   [chat_state EXCEPT !.final_messages = Some("general chat prompt")],
                   "extract_feedback")
    /\ UNCHANGED <<Workflow, Extraction, PlanGraph, raised, MealTables, llm, request,
                   adjustment_result, entry, user_input, chat_model, reply>>

node_estimate_calories ==
    /\ pc = "estimate_calories"
    /\ NodeReturns("estimate_calories",
                   [chat_state EXCEPT !.final_messages = Some("calorie estimation prompt")],
                   "extract_feedback")
    /\ UNCHANGED <<Workflow, Extraction, PlanGraph, raised, MealTables, llm, request,
                   adjustment_result, entry, user_input, chat_model, reply>>

node_generate_response ==
    /\ pc = "generate_response"
    /\ NodeReturns("generate_response",
          IF adjustment_result # None
          THEN [chat_state EXCEPT !.response =
                                      IF Val(adjustment_result).status = "success"
                                      THEN "OK {message} New Daily Total: {totals}"
                                      ELSE "FAILED {message}",
                                  !.final_messages = None]
          ELSE IF chat_state.retrieved_data # None
          THEN [chat_state EXCEPT !.final_messages = Some("retrieved meals prompt")]
          ELSE chat_state,
          "extract_feedback")
    /\ UNCHANGED <<Workflow, Extraction, PlanGraph, raised, MealTables, llm, request,
                   adjustment_result, entry, user_input, chat_model, reply>>

node_extract_feedback ==
    /\ pc = "extract_feedback"
    /\ NodeReturns("extract_feedback", chat_state, "END")
    /\ UNCHANGED <<Workflow, Extraction, PlanGraph, raised, MealTables, llm, request,
                   adjustment_result, entry, user_input, chat_model, reply>>

\* run_chat after app.invoke: return result['response']
run_chat ==
    /\ pc = "END"
    /\ entry = "run_chat"
    /\ pc' = "chat_returned"
    /\ reply' = Some(chat_state.response)
    /\ UNCHANGED <<Workflow, Extraction, PlanGraph, raised, MealTables, llm, request,
                   adjustment_result, entry, user_input, chat_model, chat_state, stream>>

\* what the streaming phase may yield and leave in the locals: the tokens' contents,
\* nothing when no token has content, the offline notice, or the error notice after
\* any tokens already passed on
LlmStream(locals) ==
    IF locals.final_messages # None /\ ~locals.response_yielded
    THEN IF chat_model
         THEN { [locals EXCEPT !.final_response = "Here is", !.response_yielded = TRUE,
                               !.yielded = @ \o <<"Here is">>],
                locals,
                [locals EXCEPT !.final_response = "Error generating response: {e}",
                               !.yielded = @ \o <<"Error generating response: {e}">>],
                [locals EXCEPT !.final_response = "Error generating response: {e}",
                               !.response_yielded = TRUE,
                               !.yielded = @ \o <<"Here is", "Error generating response: {e}">>] }
         ELSE { [locals EXCEPT !.final_response = "I'm currently in offline mode.",
                               !.yielded = @ \o <<"I'm currently in offline mode.">>] }
    ELSE {locals}

\* run_chat_stream after the loop over app.stream: the streaming phase and the fallback
run_chat_stream ==
    /\ pc = "END"
    /\ entry = "run_chat_stream"
    /\ pc' = "chat_returned"
    /\ \E locals \in LlmStream(stream) :
          \* the fallback when nothing was yielded as a response
          stream' = IF ~locals.response_yielded /\ locals.final_response = ""
                    THEN [locals EXCEPT
                            !.final_response = "I couldn't generate a response. Please try again.",
                            !.yielded = @ \o <<"I couldn't generate a response. Please try again.">>]
                    ELSE locals
    /\ UNCHANGED <<Workflow, Extraction, PlanGraph, raised, MealTables, llm, request,
                   adjustment_result, entry, user_input, chat_model, chat_state, reply>>

\* one chat turn
ChatInit ==
    /\ pc = "load_preferences"
    /\ Idle({"workflow", "extraction", "plan_graph"})
    /\ raised = FALSE
    /\ daily_meals = InitialDailyMeals
    /\ meal_details \in InitialMealDetails
    /\ llm \in BOOLEAN
    /\ request = None
    /\ adjustment_result = None
    /\ entry \in {"run_chat", "run_chat_stream"}
    /\ user_input \in SUBSET Vocabulary
    /\ chat_model \in BOOLEAN
    /\ chat_state = InitialChatState
    /\ stream = InitialStream
    /\ reply = None

ChatNext ==
    \/ node_load_preferences
    \/ node_route_query
    \/ node_retrieve_meals
    \/ node_estimate_calories
    \/ node_adjust_meal
    \/ node_monitor_changes
    \/ node_general_chat
    \/ node_generate_response
    \/ node_extract_feedback
    \/ run_chat
    \/ run_chat_stream

ChatSpec == ChatInit /\ [][ChatNext]_vars

----------------------------------------------------------------------------
(* Properties of the scheduling / retry loop *)

\* agent_persist_plan ran for a user and did not succeed
FailedAttempt ==
    /\ pc = "persist_plan"
    /\ pc' = "route_next_step"
    /\ current_user # None
    /\ success_count' = success_count

\* agent_persist_plan ran for a user and succeeded
SucceededAttempt ==
    /\ pc = "persist_plan"
    /\ pc' = "route_next_step"
    /\ success_count' # success_count

\* C1: a failed attempt while retry_count < max_retries leaves failure_count alone; the
\* failed attempt that exceeds the bound (retry_count = max_retries = 3 on entry) adds
\* exactly 1 to failure_count and leaves persist_plan with retry_count = 0, and
\* route_next_step, finding retry_count = 0, moves to the next user or to END.
C1_RetryBoundExceeded ==
    [][ /\ (FailedAttempt /\ retry_count < 3) =>
              (failure_count' = failure_count /\ retry_count' = retry_count + 1)
        /\ (FailedAttempt /\ retry_count = 3) =>
              (failure_count' = failure_count + 1 /\ retry_count' = 0)
        /\ (pc = "route_next_step" /\ retry_count = 0) =>
              /\ current_user_index' = current_user_index + 1
              /\ pc' = IF current_user_index + 1 < Len(users_to_process)
                       THEN "aggregate_data" ELSE "END" ]_vars

\* C1 witness: a user whose four attempts all failed, leaving persist_plan
C1_Witness ==
    /\ pc = "route_next_step"
    /\ current_user # None
    /\ persist_calls = 4
    /\ success_count = 0
    /\ failure_count = 1
    /\ retry_count = 0

\* C2: agent_persist_plan is called at most 4 times for any user; a retry goes back to
\* aggregate_data with current_user_index unchanged; a failed attempt either adds exactly
\* 1 to retry_count or resets it to 0.
C2_RetriesBounded ==
    /\ [](persist_calls <= 4)
    /\ [][ /\ (pc = "route_next_step" /\ retry_count > 0) =>
                 (pc' = "aggregate_data" /\ current_user_index' = current_user_index
                  /\ retry_count' = retry_count)
           /\ FailedAttempt => retry_count' \in {retry_count + 1, 0}
           /\ (FailedAttempt /\ retry_count' = 0) => retry_count = 3 ]_vars

\* C2 witness: a third retry re-enters aggregate_data for the second user
C2_Witness ==
    /\ pc = "aggregate_data"
    /\ current_user_index = 1
    /\ retry_count = 3
    /\ persist_calls = 3

\* C3: a successful persist adds exactly 1 to success_count and leaves retry_count = 0;
\* route_next_step then moves past the user, the index never goes back and no user is
\* listed twice, so the user is not processed again; a run over one due user in which
\* nothing failed ends with success_count = 1.
C3_SuccessCountedOnce ==
    /\ [](\A i, j \in 1..Len(users_to_process) :
            users_to_process[i].user_id = users_to_process[j].user_id => i = j)
    /\ [](( pc = "END" /\ Len(users_to_process) = 1 /\ errors = {} /\ failure_count = 0)
            => success_count = 1)
    /\ [][ /\ SucceededAttempt => (success_count' = success_count + 1 /\ retry_count' = 0)
           /\ (pc = "route_next_step" /\ retry_count = 0) =>
                 current_user_index' = current_user_index + 1
           /\ current_user_index' >= current_user_index ]_vars

\* C3 witness: a single due user, saved on its first retry
C3_Witness ==
    /\ pc = "route_next_step"
    /\ Len(users_to_process) = 1
    /\ persist_calls = 2
    /\ success_count = 1
    /\ retry_count = 0

\* C4: every run reaches END
C4_RunTerminates == <>(pc = "END")

\* C4 witness: END after two users, one saved and one given up after its retries
C4_Witness ==
    /\ pc = "END"
    /\ Len(users_to_process) = 2
    /\ success_count = 1
    /\ failure_count = 1

\* C5: every user fetched is passed to aggregate_data, whatever happened to the users
\* before it, and the users are taken in list order, one at a time: the index only
\* ever moves to the next position.
C5_EveryUserReached ==
    /\ \A i \in 1..MaxUsers :
          (pc = "check_users_available" /\ i <= Len(users_to_process))
             ~> (pc = "aggregate_data" /\ current_user_index = i - 1)
    /\ [][current_user_index' \in {current_user_index, current_user_index + 1}]_vars

\* C5 witness: the second user reaches aggregate_data after the first was given up
C5_Witness ==
    /\ pc = "aggregate_data"
    /\ current_user_index = 1
    /\ failure_count = 1
    /\ success_count = 0
    /\ [agent |-> "persist_plan", user_id |-> users_to_process[1].user_id] \in errors

----------------------------------------------------------------------------
(* Properties of the schedule rows *)

\* a plan generation for user u has just succeeded: the scheduled persist committed, or
\* generate_new_meal_plan committed its new schedule and plan
SuccessfulGeneration(u) ==
    \/ /\ SucceededAttempt
       /\ user_data # None
       /\ Val(user_data).user_id = u
    \/ /\ DOMAIN planning_schedule' # DOMAIN planning_schedule
       /\ \E s \in DOMAIN planning_schedule' \ DOMAIN planning_schedule :
             planning_schedule'[s].user_id = u

\* C6: after a successful plan generation for a user, at most one schedule row of that
\* user is ACTIVE.
C6_AtMostOneActiveSchedule ==
    [][ \A u \in Users :
           SuccessfulGeneration(u) =>
               Cardinality(ActiveSchedules(planning_schedule', u)) <= 1 ]_vars

\* C7: a successful persist moves the schedule's next_plan_date to its previous value
\* plus 7 days.
C7_CursorAdvancesBySeven ==
    [][ (SucceededAttempt /\ current_user # None) =>
           LET sid == Val(current_user).schedule_id
           IN  planning_schedule'[sid].next_plan_date =
                   planning_schedule[sid].next_plan_date + 7 ]_vars

----------------------------------------------------------------------------
(* Properties of the batch merge *)

\* the generated plan is a merged plan, not the mock and not None
IsMerged(gp) ==
    /\ gp # None
    /\ Val(gp).metadata # None
    /\ Val(Val(gp).metadata).agent_version # "MOCK_v1"

IsValidBatch(d) == d # None /\ validate_meal_plan_structure(Val(d))

\* the calendar of the start dates used: 2025-01-10 is a Friday
ExpectedWeekday(d) ==
    CASE d = 20098 -> "Friday"   [] d = 20099 -> "Saturday" [] d = 20100 -> "Sunday"
      [] d = 20101 -> "Monday"   [] d = 20102 -> "Tuesday"  [] d = 20103 -> "Wednesday"
      [] d = 20104 -> "Thursday" [] d = 20105 -> "Friday"   [] d = 20106 -> "Saturday"
      [] d = 20107 -> "Sunday"   [] OTHER -> "?"

\* C8: a plan merged from two valid batches has the days of batch 1 followed by the days
\* of batch 2, and its entry i (1-based here) has day = i and day_name = the weekday of
\* start_date + (i - 1), whatever the agent wrote there.
C8_MergedDaysNumberedAndNamed ==
    (pc = "consolidate_list" /\ IsValidBatch(data_1) /\ IsValidBatch(data_2)
        /\ IsMerged(generated_plan)) =>
        LET days   == DaysOf(Val(generated_plan))
            days_a == DaysOf(Val(data_1))
            days_b == DaysOf(Val(data_2))
            start  == Val(current_user).next_plan_date
        IN  /\ Len(days) = Len(days_a) + Len(days_b)
            /\ \A i \in 1..Len(days) :
                  /\ days[i].total_nutrition = (days_a \o days_b)[i].total_nutrition
                  /\ days[i].day = i
                  /\ days[i].day_name = ExpectedWeekday(start + (i - 1))

\* C8 witness: two valid two-day batches merged, the agent's labels of the last day wrong
C8_Witness ==
    /\ pc = "consolidate_list"
    /\ IsValidBatch(data_1)
    /\ IsValidBatch(data_2)
    /\ IsMerged(generated_plan)
    /\ Len(DaysOf(Val(generated_plan))) = 4
    /\ DaysOf(Val(data_2))[2].day = 5
    /\ DaysOf(Val(data_2))[2].day_name = "Someday"
    /\ DaysOf(Val(data_1))[1].total_nutrition # DaysOf(Val(data_2))[1].total_nutrition

\* C9: when either batch fails the structural validator, the caller gets None or the
\* mock plan, never a merged plan.
C9_InvalidBatchDiscardsMerge ==
    (pc = "consolidate_list" /\ data_1 # None /\ data_2 # None
        /\ (~IsValidBatch(data_1) \/ ~IsValidBatch(data_2))) =>
        (generated_plan = None \/ generated_plan = Some(generate_mock_meal_plan))

\* |avg - total / n| <= 0.05, avg in tenths
WithinHalfTenth(avg, total, n) ==
    /\ 2 * (avg * n - 10 * total) <= n
    /\ 2 * (10 * total - avg * n) <= n

----------------------------------------------------------------------------
(* Properties of the merged shopping list and of the utilization rate *)

\* the week summary and the shopping list of a generated plan
WeekSummaryOf(gp) == Val(Val(Val(gp).meal_plan).week_summary)

\* C11: the inventory_utilization_rate of every merged plan lies in [0, 100] (0..1000
\* in tenths), whatever item counts the batches report and whatever the inventory size.
C11_UtilizationWithinBounds ==
    (pc = "consolidate_list" /\ IsMerged(generated_plan)
        /\ HasWeekSummary(Val(generated_plan))) =>
        /\ WeekSummaryOf(generated_plan).inventory_utilization_rate >= 0
        /\ WeekSummaryOf(generated_plan).inventory_utilization_rate <= 1000

\* the item list of a category in a plan's shopping list, empty where there is none
ItemsOf(p, c) ==
    IF ShoppingOf(p) = None THEN <<>>
    ELSE IF Val(ShoppingOf(p)).categories[c] = None THEN <<>>
    ELSE Val(Val(ShoppingOf(p)).categories[c])

\* both batches were extracted, carry a non-empty shopping list, and were merged
MergedLists ==
    /\ pc = "consolidate_list"
    /\ IsMerged(generated_plan)
    /\ Truthy(ShoppingOf(Val(data_1)))
    /\ Truthy(ShoppingOf(Val(data_2)))

\* an item name with letter case and surrounding whitespace ignored
SameNameIgnoringCaseAndSpace(name) ==
    CASE name \in {"Rice", "RICE", "rice", "Rice "} -> "rice"
      [] name = "Beans" -> "beans"
      [] OTHER -> name

\* the named items of a list whose name is n once case and whitespace are ignored
Named(items, n) ==
    { i \in DOMAIN items :
        items[i].item # None /\ SameNameIgnoringCaseAndSpace(Val(items[i].item)) = n }

IsNumeric(o) == ToFloat(GetOr0(o)) # None

RECURSIVE SumQuantityToPurchase(_, _)
\* the sum of quantity_to_purchase over the items at the given positions
SumQuantityToPurchase(items, S) ==
    IF S = {} THEN 0
    ELSE LET i == CHOOSE x \in S : TRUE
         IN  Val(ToFloat(GetOr0(items[i].quantity_to_purchase)))
                 + SumQuantityToPurchase(items, S \ {i})

\* C12: in a merged category, an item of batch A and the items of batch B whose names
\* differ from it only by letter case or whitespace are one entry, whose
\* quantity_to_purchase is the numeric sum of the quantities of both batches.
C12_SameNameCollapsed ==
    MergedLists =>
        \A k \in DOMAIN MergeCategories :
            LET c == MergeCategories[k]
                items_a == ItemsOf(Val(data_1), c)
                items_b == ItemsOf(Val(data_2), c)
                merged  == ItemsOf(Val(generated_plan), c)
            IN  \A n \in {"rice", "beans"} :
                    ( /\ Cardinality(Named(items_a, n)) = 1
                      /\ Named(items_b, n) # {}
                      /\ \A i \in Named(items_a, n) : IsNumeric(items_a[i].quantity_to_purchase)
                      /\ \A i \in Named(items_b, n) : IsNumeric(items_b[i].quantity_to_purchase) )
                    => /\ Cardinality(Named(merged, n)) = 1
                       /\ \A i \in Named(merged, n) :
                              merged[i].quantity_to_purchase =
                                  Some(Num(SumQuantityToPurchase(items_a, Named(items_a, n))
                                           + SumQuantityToPurchase(items_b, Named(items_b, n))))

\* how many entries of a list equal the given item
Occurrences(items, it) == Cardinality({ i \in DOMAIN items : items[i] = it })

\* a named item of one list that the other list has no item for, under any spelling of
\* the name, and that its own list names once
OnlyIn(items, i, others) ==
    /\ items[i].item # None
    /\ LET n == SameNameIgnoringCaseAndSpace(Val(items[i].item))
       IN  Named(others, n) = {} /\ Named(items, n) = {i}

\* C13: whatever the two batches' shopping lists are, an item that only one batch has is
\* in the merged list of its category exactly once, all fields as the batch gave them.
C13_UnmatchedItemCarried ==
    (pc = "consolidate_list" /\ data_1 # None /\ data_2 # None
        /\ IsMerged(generated_plan)) =>
        \A c \in CategoryKeys :
            LET items_a == ItemsOf(Val(data_1), c)
                items_b == ItemsOf(Val(data_2), c)
                merged  == ItemsOf(Val(generated_plan), c)
            IN  /\ \A i \in DOMAIN items_a :
                      OnlyIn(items_a, i, items_b) => Occurrences(merged, items_a[i]) = 1
                /\ \A j \in DOMAIN items_b :
                      OnlyIn(items_b, j, items_a) => Occurrences(merged, items_b[j]) = 1

\* a total as a number: a missing or null one counts as 0
TotalValue(o) == IF o = None \/ o = Some(Null) THEN 0 ELSE Val(o).num

IsNumberOrAbsent(o) == o = None \/ Val(o).type \in {"number", "numeric_string"}

\* C19: when both batches carry a shopping list, each of the three totals of the merged
\* list is the sum of the two batches' values, the cost being a number, missing or null
\* and the counts being numbers or missing.
C19_TotalsSummed ==
    LET sl_1 == Val(ShoppingOf(Val(data_1)))
        sl_2 == Val(ShoppingOf(Val(data_2)))
        sl   == Val(ShoppingOf(Val(generated_plan)))
    IN  ( /\ MergedLists
          /\ \A l \in {sl_1, sl_2} :
                /\ IsNumberOrAbsent(l.total_estimated_cost) \/ l.total_estimated_cost = Some(Null)
                /\ IsNumberOrAbsent(l.total_items_from_inventory)
                /\ IsNumberOrAbsent(l.total_items_to_purchase) )
        => /\ sl.total_estimated_cost =
                 Some(Num(TotalValue(sl_1.total_estimated_cost)
                          + TotalValue(sl_2.total_estimated_cost)))
           /\ sl.total_items_from_inventory =
                 Some(Num(TotalValue(sl_1.total_items_from_inventory)
                          + TotalValue(sl_2.total_items_from_inventory)))
           /\ sl.total_items_to_purchase =
                 Some(Num(TotalValue(sl_1.total_items_to_purchase)
                          + TotalValue(sl_2.total_items_to_purchase)))

\* the named items of a list with the given lowered name
Matching(items, name) ==
    { i \in DOMAIN items : items[i].item # None /\ Lower(Val(items[i].item)) = name }

\* C20: an item of batch A matched by one item of batch B keeps batch A's
\* quantity_to_purchase when that quantity does not parse as a number in either batch,
\* and batch A's total_quantity_needed when that one does not parse in either batch; the
\* merge goes on: every unmatched named item of batch B is appended after batch A's
\* items, and the totals are summed.
C20_NonNumericQuantityKept ==
    MergedLists =>
        LET items_a == ItemsOf(Val(data_1), "proteins")
            items_b == ItemsOf(Val(data_2), "proteins")
            merged  == ItemsOf(Val(generated_plan), "proteins")
            sl_1 == Val(ShoppingOf(Val(data_1)))
            sl_2 == Val(ShoppingOf(Val(data_2)))
            sl   == Val(ShoppingOf(Val(generated_plan)))
        IN  \A i \in DOMAIN items_a, j \in DOMAIN items_b :
                ( /\ items_a[i].item # None
                  /\ Matching(items_a, Lower(Val(items_a[i].item))) = {i}
                  /\ Matching(items_b, Lower(Val(items_a[i].item))) = {j}
                  /\ \/ ~IsNumeric(items_a[i].quantity_to_purchase)
                     \/ ~IsNumeric(items_b[j].quantity_to_purchase)
                     \/ ~IsNumeric(items_a[i].total_quantity_needed)
                     \/ ~IsNumeric(items_b[j].total_quantity_needed) )
                => /\ (~IsNumeric(items_a[i].quantity_to_purchase)
                          \/ ~IsNumeric(items_b[j].quantity_to_purchase))
                         => merged[i].quantity_to_purchase = items_a[i].quantity_to_purchase
                   /\ (~IsNumeric(items_a[i].total_quantity_needed)
                          \/ ~IsNumeric(items_b[j].total_quantity_needed))
                         => merged[i].total_quantity_needed = items_a[i].total_quantity_needed
                   /\ Len(merged) >= Len(items_a)
                   /\ \A k \in DOMAIN items_b :
                         (items_b[k].item # None
                             /\ Matching(items_a, Lower(Val(items_b[k].item))) = {}
                             /\ Matching(items_b, Lower(Val(items_b[k].item))) = {k})
                         => \E m \in (Len(items_a) + 1)..Len(merged) : merged[m] = items_b[k]
                   /\ sl.total_estimated_cost =
                         Some(Num(TotalValue(sl_1.total_estimated_cost)
                                  + TotalValue(sl_2.total_estimated_cost)))
                   /\ sl.total_items_to_purchase =
                         Some(Num(TotalValue(sl_1.total_items_to_purchase)
                                  + TotalValue(sl_2.total_items_to_purchase)))

\* C20 witness: "Rice" with a text quantity in batch A met by "RICE" of batch B, which
\* also brings "Beans": the quantity is batch A's text, "Beans" is appended, the totals
\* are summed
C20_Witness ==
    /\ MergedLists
    /\ ItemsOf(Val(data_1), "proteins") = <<Item(Some("Rice"), Some(Text), Some(Num(6)))>>
    /\ ItemsOf(Val(data_2), "proteins") =
           <<Item(Some("RICE"), Some(NumStr(3)), Some(Num(7))),
             Item(Some("Beans"), None, Some(Num(3)))>>
    /\ ItemsOf(Val(generated_plan), "proteins") =
           <<Item(Some("Rice"), Some(Text), Some(Num(6))),
             Item(Some("Beans"), None, Some(Num(3)))>>
    /\ Val(ShoppingOf(Val(generated_plan))).total_estimated_cost = Some(Num(80))

----------------------------------------------------------------------------
(* Properties of extract_json_from_response *)

\* the text of a span parses as JSON
Parses(match) == match # None /\ ~json_loads(Val(match)).raised

\* C14: for every response text the call returns and does not raise; what it returns is
\* the value of the whole stripped text if that parses, else the value of the span from
\* the first "[" to the last "]" if there is one and it parses, else the value of the
\* span from the first "{" to the last "}" if there is one and it parses, else None.
C14_ExtractionTotal ==
    pc = "returned" =>
        LET cleaned == Strip(raw_response)
            list    == GreedySpan(cleaned, "[", "]")
            obj     == GreedySpan(cleaned, "{", "}")
        IN  /\ extracted # None
            /\ ~Val(extracted).raised
            /\ Val(extracted).value =
                   IF Parses(Some(cleaned)) THEN Some(Tokenize(cleaned, FALSE))
                   ELSE IF Parses(list) THEN Some(Tokenize(Val(list), FALSE))
                   ELSE IF Parses(obj) THEN Some(Tokenize(Val(obj), FALSE))
                   ELSE None

\* C14 witness: the text "[{}]]": neither the whole text nor its [...] span parses, the
\* {...} span does and is returned
C14_Witness ==
    /\ pc = "returned"
    /\ raw_response = <<"[", "{", "}", "]", "]">>
    /\ ~Parses(GreedySpan(raw_response, "[", "]"))
    /\ extracted = Some([raised |-> FALSE, value |-> Some(<<"{", "}">>)])

----------------------------------------------------------------------------
(* C17 *)

\* the start date the caller means: the one it names, otherwise today
MeantStartDate == IF start_date_kwarg = None THEN Today ELSE Val(start_date_kwarg)

\* C17: after fix_day_names_in_plan is called, with an explicit start_date or without
\* (then today), the call has returned and every day i (0-based) of the plan carries
\* the weekday name of start_date + i and, as its date field, the date start_date + i
C17_DayNamesAndDatesFromStartDate ==
    (pc = "returned" /\ meal_plan_json # None) =>
        /\ ~raised
        /\ LET days == DaysOf(Val(meal_plan_json))
           IN  \A i \in 1..Len(days) :
                  /\ days[i].day_name = WeekdayName(MeantStartDate + (i - 1))
                  /\ days[i].date = Some(MeantStartDate + (i - 1))

----------------------------------------------------------------------------
(* C18 *)

\* the merge of the two extracted batches is given up: a batch is null, or the merged
\* plan does not validate
MergeGivenUp(total_inventory_count) ==
    \/ data_1 = None
    \/ data_2 = None
    \/ ~validate_meal_plan_structure(MergeResults(Val(data_1), Val(data_2),
                                                  total_inventory_count))

\* C18: whenever a batch's extraction is null or the merged plan fails validation, the
\* plan the caller is left with is the mock plan, after agent_generate_meal_plan of the
\* scheduled workflow and after node_generate_plan of the interactive graph
C18_GivenUpMergeLeavesMock ==
    /\ (pc = "consolidate_list" /\ user_data # None /\ errors = {}
           /\ MergeGivenUp(Val(user_data).inventory_count))
          => generated_plan = Some(generate_mock_meal_plan)
    /\ (pc = "node_generate_suggestions" /\ MergeGivenUp(inventory_df))
          => meal_plan_json = Some(generate_mock_meal_plan)

----------------------------------------------------------------------------
(* C16 *)

Succeeded == pc = "returned" /\ adjustment_result # None /\ Val(adjustment_result).status = "success"

\* the day and the meal the request names
TargetDay == Val(get_daily_meal_id(Val(request).user_id, Val(request).date))
TargetDetail == Val(get_meal_detail_id(TargetDay, Val(request).meal_type))

Overwritten ==
    /\ meal_details[TargetDetail].meal_name = Val(Val(adjustment_result).data).meal_name
    /\ meal_details[TargetDetail].nutrition = Val(Val(adjustment_result).data).nutrition

\* the sum of one nutrition value over the rows of meal_details that belong to a day
RECURSIVE DaySum(_, _, _)
DaySum(day, k, id) ==
    IF id > Len(meal_details) THEN 0
    ELSE (IF meal_details[id].daily_meal_id = day THEN meal_details[id].nutrition[k] ELSE 0)
         + DaySum(day, k, id + 1)

\* C16 as stated: when process_request returns status success, the targeted meal_details
\* row holds the new meal data and the stored totals of its day equal the sums of the
\* nutrition values of all meal details of that day
C16_TotalsEqualSum ==
    Succeeded =>
        /\ Overwritten
        /\ \A k \in NutritionKeys :
              daily_meals[TargetDay].total_nutrition[k] = DaySum(TargetDay, k, 1)

\* C16 amended: when process_request returns status success, the targeted meal_details
\* row holds the new meal data and each stored total of its day is the sum of that
\* nutrition value over all meal details of the day rounded to one decimal place: a
\* whole number of tenths no further than half a tenth from the sum
C16_TotalsEqualRoundedSum ==
    Succeeded =>
        /\ Overwritten
        /\ \A k \in NutritionKeys :
              LET stored == daily_meals[TargetDay].total_nutrition[k]
                  sum    == DaySum(TargetDay, k, 1)
              IN  /\ stored % 10 = 0
                  /\ stored - sum <= 5
                  /\ sum - stored <= 5

\* a successful request on a day with two meals whose sums do not fall on a tenth
C16_Witness ==
    /\ Succeeded
    /\ Len(get_all_meal_details_for_day(meal_details, TargetDay)) = 2
    /\ \E k \in NutritionKeys : DaySum(TargetDay, k, 1) % 10 # 0
    /\ meal_details[TargetDetail].meal_name = Some("Burger")

----------------------------------------------------------------------------
(* C15 *)

IsStatus(text) ==
    text \in {"__STATUS__: Loading your preferences...", "__STATUS__: Analyzing your input...",
              "__STATUS__: Searching your meal plan...", "__STATUS__: Analyzing food items...",
              "__STATUS__: Processing meal adjustment...", "__STATUS__: Thinking...",
              "__STATUS__: Preparing response...", "__STATUS__: Verifying health constraints..."}

\* C15: a chat turn that has ended did not raise and gave a non-empty textual reply:
\* run_chat returned a non-empty string, run_chat_stream yielded a non-empty string
\* that is no status line; on every route
C15_ChatAlwaysReplies ==
    pc = "chat_returned" =>
        /\ ~raised
        /\ entry = "run_chat" => (reply # None /\ Val(reply) # "")
        /\ entry = "run_chat_stream" =>
              \E i \in 1..Len(stream.yielded) :
                 ~IsStatus(stream.yielded[i]) /\ stream.yielded[i] # ""

----------------------------------------------------------------------------
(* C21 *)

\* agent_persist_plan caught an exception while saving the plan of a user
PersistRaised == FailedAttempt /\ generated_plan # None /\ user_data # None

----------------------------------------------------------------------------
(* C22 *)

FetchFailed == \E e \in errors : e.agent = "fetch_users"

\* C22: after agent_fetch_users, users_to_process lists exactly the users that have an
\* ACTIVE schedule with next_plan_date <= current_date, each of them once however many
\* of its rows qualify; after a query error the list stays empty and the run ends with
\* no user processed
C22_FetchSelectsDueUsersOnce ==
    /\ (pc = "check_users_available" /\ ~FetchFailed) =>
          /\ { users_to_process[i].user_id : i \in 1..Len(users_to_process) } =
                { u \in Users : \E s \in DOMAIN planning_schedule :
                                    /\ planning_schedule[s].user_id = u
                                    /\ planning_schedule[s].status = "ACTIVE"
                                    /\ planning_schedule[s].next_plan_date <= current_date }
          /\ \A i, j \in 1..Len(users_to_process) :
                users_to_process[i].user_id = users_to_process[j].user_id => i = j
    /\ FetchFailed =>
          /\ users_to_process = <<>>
          /\ pc \in {"check_users_available", "END"}
          /\ current_user = None
          /\ persist_calls = 0
          /\ success_count = 0
          /\ failure_count = 0
          /\ \A u \in Users : meal_plans[u] = 0

\* a user with two due ACTIVE rows is listed once
C22_Witness ==
    /\ pc = "check_users_available"
    /\ ~FetchFailed
    /\ Len(users_to_process) = 1
    /\ Cardinality({ s \in DOMAIN planning_schedule :
                        /\ planning_schedule[s].user_id = users_to_process[1].user_id
                        /\ planning_schedule[s].status = "ACTIVE"
                        /\ planning_schedule[s].next_plan_date <= current_date }) = 2

----------------------------------------------------------------------------
(* Two runs over the same tables *)

Runs == {state, other_run}

\* C23: a run on its own lists a due user once and counts at most one success for each
\* user it listed; nothing in fetch or persist looks at what another run of the same
\* date has listed or written, so two runs can both list the same due user and both
\* persist a plan and a schedule update for it (the witness).
C23_RunListsDueUserOnce ==
    \A r \in Runs :
        /\ \A i, j \in DOMAIN r.users_to_process :
               r.users_to_process[i].user_id = r.users_to_process[j].user_id => i = j
        /\ r.success_count <= Len(r.users_to_process)

\* both runs listed the same schedule of the same user, both counted a success for it,
\* and the user holds a plan from each
C23_Witness ==
    /\ pc = "END"
    /\ other_run.pc = "END"
    /\ users_to_process # <<>>
    /\ other_run.users_to_process = users_to_process
    /\ success_count = 1
    /\ other_run.success_count = 1
    /\ meal_plans[users_to_process[1].user_id] = 2
    /\ planning_schedule[users_to_process[1].schedule_id].next_plan_date = NextDate

----------------------------------------------------------------------------
(* The counters at the end of a run *)

\* C24: when the run has ended, every listed user was counted exactly once, as a
\* success or as a failure: success_count + failure_count = len(users_to_process).
C24_EveryUserCounted ==
    pc = "END" => success_count + failure_count = Len(users_to_process)

----------------------------------------------------------------------------
(* Plans written by one run *)

\* C25: within one run a user gets at most one meal plan, retries of persist_plan
\* included.
C25_OnePlanPerUser ==
    \A u \in Users : meal_plans[u] <= 1

----------------------------------------------------------------------------
(* A second run for the same target date *)

\* the stepping run takes the step from node "from" to node "to"
Steps(from, to) == pc = from /\ pc' = to /\ other_run' = other_run

\* C26: a successful persist leaves the user with no due ACTIVE schedule for the target
\* date, and a run for the same date that fetches after another run has ended with
\* every user it listed served lists none of those users.
C26_ServedUserNotSelectedAgain ==
    [][ /\ (Steps("persist_plan", "route_next_step") /\ success_count' = success_count + 1)
            => Val(user_data).user_id \notin DueUsers(planning_schedule', current_date)
        /\ ( /\ Steps("fetch_users", "check_users_available")
             /\ other_run.pc = "END"
             /\ other_run.current_date = current_date
             /\ other_run.success_count = Len(other_run.users_to_process) )
            => \A i \in DOMAIN users_to_process', j \in DOMAIN other_run.users_to_process :
                   users_to_process'[i].user_id # other_run.users_to_process[j].user_id
      ]_vars

\* the second run has fetched without an error and lists nobody: the user the first run
\* served is no longer due
C26_Witness ==
    /\ other_run.pc = "END"
    /\ other_run.success_count = 1
    /\ Len(other_run.users_to_process) = 1
    /\ planning_schedule[other_run.users_to_process[1].schedule_id].next_plan_date = NextDate
    /\ pc = "check_users_available"
    /\ errors = {}
    /\ users_to_process = <<>>
    /\ meal_plans[other_run.users_to_process[1].user_id] = 1

----------------------------------------------------------------------------
(* What run_chat_stream yields *)

\* the positions of the content chunks among the strings yielded so far
ContentChunks == { i \in DOMAIN stream.yielded : ~IsStatus(stream.yielded[i]) }

\* C27: run_chat_stream yields no status string after a content chunk, and on a
\* meal-adjustment turn the reply is yielded once: the static response of adjust_meal is
\* not yielded again for the outputs of monitor_changes, generate_response and
\* extract_feedback.
C27_ReplyYieldedOnce ==
    entry = "run_chat_stream" =>
        /\ \A i \in ContentChunks, j \in DOMAIN stream.yielded : i < j => j \in ContentChunks
        /\ adjustment_result # None => Cardinality(ContentChunks) <= 1
        /\ (adjustment_result # None /\ pc = "chat_returned") => Cardinality(ContentChunks) = 1

----------------------------------------------------------------------------
(* A request that ends in an error *)

\* C28: a call of process_request that returns status error has modified no row of
\* meal_details and no row of daily_meals.
C28_ErrorLeavesMealsUnchanged ==
    [][ ( /\ pc = "process_request"
          /\ pc' = "returned"
          /\ Val(adjustment_result').status = "error" )
        => UNCHANGED MealTables ]_vars

----------------------------------------------------------------------------
(* The date the monitoring step looks at *)

\* C29: the warnings node_monitor_changes stores after a successful adjustment are
\* those of the date the adjustment was made for (the date extracted from the message,
\* or today).
C29_MonitorsAdjustedDate ==
    chat_state.monitoring_warnings # None =>
        Val(chat_state.monitoring_warnings).date = Val(request).date

----------------------------------------------------------------------------
(* The scheduled task *)

\* C30: when the task has finished without raising, every user that was due on the
\* target date had a plan persisted in the run: nobody is still due, and every listed
\* user holds a plan written by the run.
C30_FinishedTaskServedEveryDueUser ==
    (pc = "task_done" /\ ~raised) =>
        /\ DueUsers(planning_schedule, current_date) = {}
        /\ \A i \in DOMAIN users_to_process : meal_plans[users_to_process[i].user_id] >= 1

====
